---- MODULE Spec2Model ----
(***************************************************************************)
(* A model of simple-lyrics.js (the "Lyrics Plus" Spicetify extension):    *)
(* the foreground lyric resolution (fetchLyrics), the lyrics cache, the    *)
(* silent queue prefetch, the line synchronisation (updateLyricsUI, manual *)
(* scroll, resync), the per-track offsets, the stored settings and their   *)
(* loading at start, the search permutations, cleanText, parseLRC and the  *)
(* LRC export.                                                             *)
(*                                                                         *)
(* Text is a sequence of one-character strings, so that the regular        *)
(* expressions of the source are computed position by position.            *)
(***************************************************************************)
EXTENDS Integers, Sequences, FiniteSets, TLC

(***************************************************************************)
(* Text helpers                                                            *)
(***************************************************************************)

\* JavaScript's \s, restricted to the characters the model's texts use.
WhiteSpace == {" ", "\t", "\n", "\r"}

\* Characters the regular expression dot does not match.
LineTerminators == {"\n", "\r"}

UpperSeq == <<"A","B","C","D","E","F","G","H","I","J","K","L","M",
              "N","O","P","Q","R","S","T","U","V","W","X","Y","Z">>

LowerSeq == <<"a","b","c","d","e","f","g","h","i","j","k","l","m",
              "n","o","p","q","r","s","t","u","v","w","x","y","z">>

\* The /i flag: characters are compared after case folding.
Lower(c) ==
    IF \E i \in 1..Len(UpperSeq) : UpperSeq[i] = c
    THEN LowerSeq[CHOOSE i \in 1..Len(UpperSeq) : UpperSeq[i] = c]
    ELSE c

\* s[i..] starts with the word w, compared case-insensitively.
HasWordAt(s, i, w) ==
    /\ i >= 1
    /\ i + Len(w) - 1 <= Len(s)
    /\ \A k \in 1..Len(w) : Lower(s[i + k - 1]) = Lower(w[k])

\* The end (exclusive) of the run of white space that starts at i.
RECURSIVE SkipSpace(_, _)
SkipSpace(s, i) ==
    IF i <= Len(s) /\ s[i] \in WhiteSpace THEN SkipSpace(s, i + 1) ELSE i

\* The end (exclusive) of the line that holds position i: where ".*" stops.
RECURSIVE LineEnd(_, _)
LineEnd(s, i) ==
    IF i <= Len(s) /\ s[i] \notin LineTerminators THEN LineEnd(s, i + 1) ELSE i

\* s without the positions from..to-1.
Cut(s, from, to) == SubSeq(s, 1, from - 1) \o SubSeq(s, to, Len(s))

\* String.prototype.trim
RECURSIVE TrimLeft(_)
TrimLeft(s) ==
    IF s # <<>> /\ Head(s) \in WhiteSpace THEN TrimLeft(Tail(s)) ELSE s

RECURSIVE TrimRight(_)
TrimRight(s) ==
    IF s # <<>> /\ s[Len(s)] \in WhiteSpace
    THEN TrimRight(SubSeq(s, 1, Len(s) - 1))
    ELSE s

Trim(s) == TrimRight(TrimLeft(s))

\* A sequence without its j-th member.
Without(q, j) == SubSeq(q, 1, j - 1) \o SubSeq(q, j + 1, Len(q))

\* The members of a sequence in first-seen order (a JavaScript Set's order).
RECURSIVE Dedupe(_)
Dedupe(q) ==
    IF q = <<>> THEN <<>>
    ELSE LET front == Dedupe(SubSeq(q, 1, Len(q) - 1))
             last  == q[Len(q)]
         IN  IF \E i \in 1..Len(front) : front[i] = last
             THEN front
             ELSE Append(front, last)

(***************************************************************************)
(* cleanText                                                               *)
(***************************************************************************)

QualifierWords ==
    { <<"r","e","m","a","s","t","e","r">>, <<"l","i","v","e">>,
      <<"e","d","i","t">>, <<"v","e","r","s","i","o","n">>,
      <<"m","i","x">>, <<"d","e","l","u","x","e">> }

FeatWords == { <<"f","e","a","t",".">>, <<"f","t",".">> }

\* /\s-\s.*?(remaster|live|edit|version|mix|deluxe).*/i matches from i: the
\* keyword has to start on the line that follows the dash clause's opening.
QualifierAt(s, i) ==
    /\ i + 2 <= Len(s)
    /\ s[i] \in WhiteSpace
    /\ s[i + 1] = "-"
    /\ s[i + 2] \in WhiteSpace
    /\ \E j \in (i + 3)..(LineEnd(s, i + 3) - 1) :
          \E w \in QualifierWords : HasWordAt(s, j, w)

\* text.replace of the qualifier clause: the leftmost match, which runs to
\* the end of the keyword's line.
StripQualifier(s) ==
    IF \E i \in 1..Len(s) : QualifierAt(s, i)
    THEN LET i == CHOOSE i \in 1..Len(s) :
                     /\ QualifierAt(s, i)
                     /\ \A k \in 1..(i - 1) : ~QualifierAt(s, k)
         IN  Cut(s, i, LineEnd(s, i + 3))
    ELSE s

\* The position of the first `close` at or after i on the same line, or 0.
RECURSIVE FindClose(_, _, _)
FindClose(s, i, close) ==
    IF i > Len(s) \/ s[i] \in LineTerminators THEN 0
    ELSE IF s[i] = close THEN i
    ELSE FindClose(s, i + 1, close)

\* /\s*\(.*?\)\s*|\s*\[.*?\]\s*/ matched at i: the end (exclusive) of the
\* match, or 0 when there is none.
BracketMatchEnd(s, i) ==
    LET k == SkipSpace(s, i)
    IN  IF k > Len(s) THEN 0
        ELSE IF s[k] = "("
             THEN LET m == FindClose(s, k + 1, ")")
                  IN  IF m = 0 THEN 0 ELSE SkipSpace(s, m + 1)
        ELSE IF s[k] = "["
             THEN LET m == FindClose(s, k + 1, "]")
                  IN  IF m = 0 THEN 0 ELSE SkipSpace(s, m + 1)
        ELSE 0

\* The /g replace: scan from i, drop every match, keep everything else.
RECURSIVE StripBracketsFrom(_, _)
StripBracketsFrom(s, i) ==
    IF i > Len(s) THEN <<>>
    ELSE LET e == BracketMatchEnd(s, i)
         IN  IF e # 0
             THEN StripBracketsFrom(s, e)
             ELSE <<s[i]>> \o StripBracketsFrom(s, i + 1)

StripBrackets(s) == StripBracketsFrom(s, 1)

\* /\s(feat|ft)\..*/i matches from i.
FeatAt(s, i) ==
    /\ i <= Len(s)
    /\ s[i] \in WhiteSpace
    /\ \E w \in FeatWords : HasWordAt(s, i + 1, w)

StripFeat(s) ==
    IF \E i \in 1..Len(s) : FeatAt(s, i)
    THEN LET i == CHOOSE i \in 1..Len(s) :
                     /\ FeatAt(s, i)
                     /\ \A k \in 1..(i - 1) : ~FeatAt(s, k)
         IN  Cut(s, i, LineEnd(s, i + 1))
    ELSE s

ArtistDelimiters == {",", "/", "&", ";"}

\* split(/,|\/|&|;/)[0]
FirstToken(s) ==
    IF \E i \in 1..Len(s) : s[i] \in ArtistDelimiters
    THEN LET i == CHOOSE i \in 1..Len(s) :
                     /\ s[i] \in ArtistDelimiters
                     /\ \A k \in 1..(i - 1) : s[k] \notin ArtistDelimiters
         IN  SubSeq(s, 1, i - 1)
    ELSE s

cleanText(text) ==
    IF text = <<>> THEN <<>>
    ELSE Trim(FirstToken(StripFeat(StripBrackets(StripQualifier(text)))))

(***************************************************************************)
(* getSearchPermutations                                                   *)
(***************************************************************************)

SplitWords == { <<",">>, <<"/">>, <<"&">>, <<";">> } \cup FeatWords

\* The length of the /,|\/|&|;|feat\.|ft\./i delimiter at i, or 0.
SplitDelimLen(s, i) ==
    IF \E w \in SplitWords : HasWordAt(s, i, w)
    THEN Len(CHOOSE w \in SplitWords : HasWordAt(s, i, w))
    ELSE 0

\* String.prototype.split on that expression: `cur` is the piece being read.
RECURSIVE SplitArtistsFrom(_, _, _)
SplitArtistsFrom(s, i, cur) ==
    IF i > Len(s) THEN <<cur>>
    ELSE LET d == SplitDelimLen(s, i)
         IN  IF d > 0
             THEN <<cur>> \o SplitArtistsFrom(s, i + d, <<>>)
             ELSE SplitArtistsFrom(s, i + 1, Append(cur, s[i]))

SplitArtists(s) == SplitArtistsFrom(s, 1, <<>>)

\* The trimmed, non-empty pieces, in order.
RECURSIVE TrimmedPieces(_)
TrimmedPieces(q) ==
    IF q = <<>> THEN <<>>
    ELSE LET t == Trim(Head(q))
         IN  (IF t # <<>> THEN <<t>> ELSE <<>>) \o TrimmedPieces(Tail(q))

\* Every title with every artist with every album, titles outermost.
Product(titles, artists, albums) ==
    [n \in 1..(Len(titles) * Len(artists) * Len(albums)) |->
        LET k == n - 1
            a == Len(albums)
            r == Len(artists)
        IN  [title  |-> titles[(k \div (a * r)) + 1],
             artist |-> artists[((k \div a) % r) + 1],
             album  |-> albums[(k % a) + 1]]]

\* getSearchPermutations with arrays where the source has Sets and without
\* the test of addedPermutations: a variation that equals an earlier one is
\* kept.
getSearchPermutationsKeepingRepeats(meta) ==
    LET originalTitle   == meta.title
        originalArtist  == meta.artist_name
        originalAlbum   == meta.album_title
    IN  Product(<<originalTitle, cleanText(originalTitle)>>,
                <<originalArtist, cleanText(originalArtist)>>
                    \o TrimmedPieces(SplitArtists(originalArtist)),
                <<originalAlbum, cleanText(originalAlbum), <<>> >>)

getSearchPermutations(meta) ==
    LET originalTitle   == meta.title
        originalArtist  == meta.artist_name
        originalAlbum   == meta.album_title
        titleVariations == Dedupe(<<originalTitle, cleanText(originalTitle)>>)
        artistVariations ==
            Dedupe(<<originalArtist, cleanText(originalArtist)>>
                   \o TrimmedPieces(SplitArtists(originalArtist)))
        albumVariations ==
            Dedupe(<<originalAlbum, cleanText(originalAlbum), <<>> >>)
    IN  Dedupe(Product(titleVariations, artistVariations, albumVariations))

\* Metadata without a title, an artist or an album.
NoMeta == [title |-> <<>>, artist_name |-> <<>>, album_title |-> <<>>]

\* Titles, artists and albums a track's metadata can carry: plain ones, ones
\* with a qualifier, a bracket or a featured artist, lists of artists, and
\* fields that are missing.
Titles ==
    { <<"T">>,
      <<"T"," ","(","L","i","v","e",")">>,
      <<"T"," ","-"," ","R","e","m","a","s","t","e","r">>,
      <<"T"," ","f","e","a","t","."," ","X">>,
      <<>> }

Artists ==
    { <<"X">>,
      <<"X",","," ","Y">>,
      <<"X"," ","&"," ","X">>,
      <<"X"," ","f","e","a","t","."," ","Y">>,
      <<>> }

Albums ==
    { <<"L">>,
      <<"L"," ","(","D","e","l","u","x","e",")">>,
      <<"T">>,
      <<>> }

Metas ==
    [title : Titles, artist_name : Artists, album_title : Albums]

(***************************************************************************)
(* parseLRC                                                                *)
(***************************************************************************)

\* null (or undefined) where the code expects a string.
NoText == <<"null">>

\* null where the code expects an array of lyric lines.
NoLyrics == <<[time |-> -1, text |-> NoText]>>

\* null (or undefined) where the code expects a track uri.
NoUri == "null"

\* The musical-note glyph that stands for an empty lyric line.
Note == "~"

Digits == <<"0","1","2","3","4","5","6","7","8","9">>

IsDigit(c) == \E d \in 1..Len(Digits) : Digits[d] = c

DigitVal(c) == (CHOOSE d \in 1..Len(Digits) : Digits[d] = c) - 1

\* parseInt(str, 10) of a string of digits.
RECURSIVE ParseInt(_)
ParseInt(str) ==
    IF str = <<>> THEN 0
    ELSE 10 * ParseInt(SubSeq(str, 1, Len(str) - 1)) + DigitVal(str[Len(str)])

\* A padEnd that leaves the string as it is.
PadEndNothing(str, n) == str

\* String.prototype.padEnd(n, "0")
RECURSIVE PadEndZero(_, _)
PadEndZero(str, n) ==
    IF Len(str) >= n THEN str ELSE PadEndZero(Append(str, "0"), n)

\* String.prototype.split("\n"): `cur` is the line being read.
RECURSIVE SplitLinesFrom(_, _, _)
SplitLinesFrom(s, i, cur) ==
    IF i > Len(s) THEN <<cur>>
    ELSE IF s[i] = "\n"
         THEN <<cur>> \o SplitLinesFrom(s, i + 1, <<>>)
         ELSE SplitLinesFrom(s, i + 1, Append(cur, s[i]))

SplitLines(s) == SplitLinesFrom(s, 1, <<>>)

\* The number of digits (3, else 2) that \d{2,3} takes at i so that "]"
\* follows, or 0.
FractionLen(line, i) ==
    IF /\ i + 3 <= Len(line)
       /\ \A k \in 0..2 : IsDigit(line[i + k])
       /\ line[i + 3] = "]"
    THEN 3
    ELSE IF /\ i + 2 <= Len(line)
            /\ \A k \in 0..1 : IsDigit(line[i + k])
            /\ line[i + 2] = "]"
         THEN 2
         ELSE 0

\* /\[(\d{2}):(\d{2})[.:](\d{2,3})\](.*)/ matches from i.
TimestampAt(line, i) ==
    /\ i + 9 <= Len(line)
    /\ line[i] = "["
    /\ IsDigit(line[i + 1]) /\ IsDigit(line[i + 2])
    /\ line[i + 3] = ":"
    /\ IsDigit(line[i + 4]) /\ IsDigit(line[i + 5])
    /\ line[i + 6] \in {".", ":"}
    /\ FractionLen(line, i + 7) > 0

\* line.match(...): the groups of the leftmost match, as the parsed entry.
TimestampedLine(line) ==
    LET i    == CHOOSE i \in 1..Len(line) :
                    /\ TimestampAt(line, i)
                    /\ \A k \in 1..(i - 1) : ~TimestampAt(line, k)
        n    == FractionLen(line, i + 7)
        min  == SubSeq(line, i + 1, i + 2)
        sec  == SubSeq(line, i + 4, i + 5)
        ms   == SubSeq(line, i + 7, i + 6 + n)
        from == i + 8 + n
        text == SubSeq(line, from, LineEnd(line, from) - 1)
        time == ParseInt(min) * 60000 + ParseInt(sec) * 1000
                    + ParseInt(PadEndZero(ms, 3))
    IN  [time |-> time, text |-> IF Trim(text) = <<>> THEN <<Note>> ELSE Trim(text)]

\* The entries of the lines that carry a timestamp, in input order.
RECURSIVE MatchedLines(_)
MatchedLines(lines) ==
    IF lines = <<>> THEN <<>>
    ELSE (IF \E i \in 1..Len(Head(lines)) : TimestampAt(Head(lines), i)
          THEN <<TimestampedLine(Head(lines))>>
          ELSE <<>>) \o MatchedLines(Tail(lines))

\* Insert e after every entry whose time is not greater: a stable order.
RECURSIVE InsertByTime(_, _)
InsertByTime(sorted, e) ==
    IF sorted = <<>> THEN <<e>>
    ELSE IF sorted[Len(sorted)].time <= e.time THEN Append(sorted, e)
    ELSE Append(InsertByTime(SubSeq(sorted, 1, Len(sorted) - 1), e),
                sorted[Len(sorted)])

\* Array.prototype.sort((a, b) => a.time - b.time), which is stable.
RECURSIVE SortByTime(_)
SortByTime(q) ==
    IF q = <<>> THEN <<>>
    ELSE InsertByTime(SortByTime(SubSeq(q, 1, Len(q) - 1)), q[Len(q)])

\* parseLRC returning the empty sequence where no line matched.
parseLRCOrEmpty(lrcText) ==
    IF lrcText = NoText \/ lrcText = <<>> THEN NoLyrics
    ELSE SortByTime(MatchedLines(SplitLines(lrcText)))

parseLRC(lrcText) ==
    IF lrcText = NoText \/ lrcText = <<>> THEN NoLyrics
    ELSE LET parsed == MatchedLines(SplitLines(lrcText))
         IN  IF Len(parsed) > 0 THEN SortByTime(parsed) ELSE NoLyrics

\* The prefetch module's parseLRC returning the lines in input order.
prefetchParseLRCUnsorted(lrcText) ==
    IF lrcText = NoText \/ lrcText = <<>> THEN NoLyrics
    ELSE LET parsed == MatchedLines(SplitLines(lrcText))
         IN  IF Len(parsed) # 0 THEN parsed ELSE NoLyrics

\* The prefetch module's own copy of parseLRC.
prefetchParseLRC(lrcText) ==
    IF lrcText = NoText \/ lrcText = <<>> THEN NoLyrics
    ELSE LET parsed == MatchedLines(SplitLines(lrcText))
         IN  IF Len(parsed) # 0 THEN SortByTime(parsed) ELSE NoLyrics

(***************************************************************************)
(* The host player, the provider and the bounds of the model               *)
(***************************************************************************)

\* The tracks the host player can play or queue.
Uris == {"A", "B"}

\* Player.data.item.metadata of each track.
TrackMeta(uri) ==
    IF uri = "A"
    THEN [title |-> <<"T">>, artist_name |-> <<"X">>, album_title |-> <<"L">>]
    ELSE [title |-> <<"U">>, artist_name |-> <<"Y">>, album_title |-> <<>>]

\* Timed texts the provider holds.
SyncedA1 == <<"[","0","0",":","0","1",".","0","0","]","a","\n","[","0","0",":","0","2",".","5","0","]","b">>
SyncedA2 == <<"[","0","0",":","0","1",".","5","0","]","a">>
SyncedB1 == <<"[","0","0",":","0","1",".","0","0","]","c">>
\* A syncedLyrics field that holds no timestamped line.
Untimed == <<"n","a">>

\* Untimed texts the provider holds.
PlainA == <<"a","\n","b">>
PlainB == <<"c">>

\* A response that is not an object (its fields cannot be read).
Malformed == [malformed |-> TRUE]

\* A query that failed: the promise was rejected.
Rejected == [rejected |-> TRUE]

Response(synced, plain) == [syncedLyrics |-> synced, plainLyrics |-> plain]

\* What the provider can answer to a query about a track, whatever the
\* permutation asked: the choice is the environment's.
ProviderResponses(uri) ==
    IF uri = "A"
    THEN { Response(SyncedA1, PlainA), Response(SyncedA2, NoText),
           Response(Untimed, PlainA), Malformed }
    ELSE { Response(SyncedB1, NoText), Response(NoText, PlainB),
           Response(NoText, NoText) }

\* The syncedLyrics fields of the provider's answers.
SyncedTexts ==
    { r.syncedLyrics :
        r \in UNION {ProviderResponses(u) : u \in Uris} \ {Malformed} }

\* parseLRC of each of them and getSearchPermutations of each track's
\* metadata, computed once for all the calls that ask for them.
ParsedLRC == [t \in SyncedTexts |-> parseLRC(t)]

PrefetchParsedLRC == [t \in SyncedTexts |-> prefetchParseLRC(t)]

SearchPermutationsOf == [u \in Uris |-> getSearchPermutations(TrackMeta(u))]

\* Player.getProgress() values the host reports.
ProgressValues == {0, 1000, 2500}

\* How many fetchLyrics calls may be suspended in a query at once.
MaxSessions == 2

\* How many prefetch walks may be under way at once beside a fetchLyrics call
\* that is suspended, and how many while none is.
MaxWalks == 1

MaxIdleWalks == 2

\* How many inactivity timers may exist at once.
MaxTimers == 2

(***************************************************************************)
(* State                                                                   *)
(***************************************************************************)

VARIABLES
    playerItem,              \* Player.data.item: the uri playing, or NoUri
    progress,                \* Player.getProgress()
    queue,                   \* the host's upcoming queue (Spicetify.Queue)
    cache,                   \* LocalStorage "lyrics-plus:cache": uri -> entry
    songOffsets,             \* uri -> offset in ms, absent keys are 0
    autoCache,               \* currentConfig.autoCache
    layout,                  \* currentConfig.layout
    storedConfig,            \* LocalStorage "lyrics-plus:config"
    storedOffsets,           \* LocalStorage "lyrics-plus:offsets"
    notifications,           \* what the running handler showed the user
    consoleErrors,           \* what the running handler wrote to console.error
    currentLyrics,
    availableLyrics,
    isPageVisible,
    currentActiveLineIndex,
    lyricsStarted,
    isSynced,
    scrollTimeout,           \* the id of the timer the wheel handler set last
    pendingTimers,           \* the inactivity timers that have not fired
    latestFetchUri,
    currentFetchController,  \* the session whose AbortController it is
    pageUri,                 \* page.dataset.uri
    content,                 \* what .lyrics-plus-content shows
    lineEls,                 \* the class list of every .lyrics-plus-line
    viewportHidden,          \* the viewport carries the class lyrics-hidden
    resyncVisible,           \* the Re-sync button is shown
    contentY,                \* the content's translateY, in line heights
    status,                  \* the provider status indicator and its text
    lastError,               \* the exception the last event handler let escape
    sessions,                \* the fetchLyrics calls that reached the loop
    walks,                   \* the prefetchQueueLyricsSilently calls
    cacheAll,                \* the "Cache All Lyrics" handler
    metadata,                \* the metadata getSearchPermutations is given
    permutations,            \* what getSearchPermutations returned for it
    rawText,                 \* the text cleanText is given
    cleanedText,             \* what cleanText returned for it
    lrcText,                 \* the text parseLRC is given
    parseResult,             \* what parseLRC returned for it
    lrcContent,              \* the file the running handler exported
    setupPc,                 \* where the initial setup of the script is
    prefetchParseResult      \* what the prefetch module's parseLRC returned

vars == <<playerItem, progress, queue, cache, songOffsets, autoCache,
          layout, storedConfig, storedOffsets, notifications, consoleErrors,
          currentLyrics, availableLyrics, isPageVisible,
          currentActiveLineIndex, lyricsStarted, isSynced, scrollTimeout,
          pendingTimers, latestFetchUri, currentFetchController, pageUri,
          content, lineEls, viewportHidden, resyncVisible, contentY, status,
          lastError, sessions, walks, cacheAll, metadata, permutations,
          rawText, cleanedText, lrcText, parseResult, lrcContent, setupPc,
          prefetchParseResult>>

\* The whole state as one record: a handler is an operator from the state
\* it finds to the state it leaves, so that handlers compose as calls do.
World ==
    [playerItem |-> playerItem, progress |-> progress, queue |-> queue,
     cache |-> cache, songOffsets |-> songOffsets, autoCache |-> autoCache,
     layout |-> layout, storedConfig |-> storedConfig,
     storedOffsets |-> storedOffsets, notifications |-> notifications,
     consoleErrors |-> consoleErrors,
     currentLyrics |-> currentLyrics, availableLyrics |-> availableLyrics,
     isPageVisible |-> isPageVisible,
     currentActiveLineIndex |-> currentActiveLineIndex,
     lyricsStarted |-> lyricsStarted, isSynced |-> isSynced,
     scrollTimeout |-> scrollTimeout, pendingTimers |-> pendingTimers,
     latestFetchUri |-> latestFetchUri,
     currentFetchController |-> currentFetchController, pageUri |-> pageUri,
     content |-> content, lineEls |-> lineEls,
     viewportHidden |-> viewportHidden, resyncVisible |-> resyncVisible,
     contentY |-> contentY, status |-> status, lastError |-> lastError,
     sessions |-> sessions, walks |-> walks, cacheAll |-> cacheAll,
     metadata |-> metadata, permutations |-> permutations,
     rawText |-> rawText, cleanedText |-> cleanedText, lrcText |-> lrcText,
     parseResult |-> parseResult, lrcContent |-> lrcContent,
     setupPc |-> setupPc, prefetchParseResult |-> prefetchParseResult]

\* The next state is the record w.
Is(w) ==
    /\ playerItem' = w.playerItem
    /\ progress' = w.progress
    /\ queue' = w.queue
    /\ cache' = w.cache
    /\ songOffsets' = w.songOffsets
    /\ autoCache' = w.autoCache
    /\ layout' = w.layout
    /\ storedConfig' = w.storedConfig
    /\ storedOffsets' = w.storedOffsets
    /\ notifications' = w.notifications
    /\ consoleErrors' = w.consoleErrors
    /\ currentLyrics' = w.currentLyrics
    /\ availableLyrics' = w.availableLyrics
    /\ isPageVisible' = w.isPageVisible
    /\ currentActiveLineIndex' = w.currentActiveLineIndex
    /\ lyricsStarted' = w.lyricsStarted
    /\ isSynced' = w.isSynced
    /\ scrollTimeout' = w.scrollTimeout
    /\ pendingTimers' = w.pendingTimers
    /\ latestFetchUri' = w.latestFetchUri
    /\ currentFetchController' = w.currentFetchController
    /\ pageUri' = w.pageUri
    /\ content' = w.content
    /\ lineEls' = w.lineEls
    /\ viewportHidden' = w.viewportHidden
    /\ resyncVisible' = w.resyncVisible
    /\ contentY' = w.contentY
    /\ status' = w.status
    /\ lastError' = w.lastError
    /\ sessions' = w.sessions
    /\ walks' = w.walks
    /\ cacheAll' = w.cacheAll
    /\ metadata' = w.metadata
    /\ permutations' = w.permutations
    /\ rawText' = w.rawText
    /\ cleanedText' = w.cleanedText
    /\ lrcText' = w.lrcText
    /\ parseResult' = w.parseResult
    /\ lrcContent' = w.lrcContent
    /\ setupPc' = w.setupPc
    /\ prefetchParseResult' = w.prefetchParseResult

\* The next state is what a handler returns, computed once.
Becomes(result) == \E w \in {result} : Is(w)

NoError == "none"

\* A JavaScript object used as a map: obj[key] = value.
Put(obj, key, value) ==
    [k \in DOMAIN obj \cup {key} |-> IF k = key THEN value ELSE obj[k]]

\* The object {}.
EmptyObject == [k \in {} |-> NoError]

\* delete obj[key]
Delete(obj, key) == [k \in DOMAIN obj \ {key} |-> obj[k]]


(***************************************************************************)
(* Rendering                                                               *)
(***************************************************************************)

\* The html strings fetchLyrics and saveConfig hand to renderLyricsContent.
MessageHtml(text) ==
    [kind |-> "message", message |-> text, lyrics |-> NoLyrics,
     plain |-> NoText]

\* currentLyrics.map(line => `<p class="lyrics-plus-line" ...>`).join('')
LyricsHtml(lyrics) ==
    IF lyrics = <<>> THEN MessageHtml("")
    ELSE [kind |-> "lyrics", message |-> "", lyrics |-> lyrics,
          plain |-> NoText]

\* plainLyricsFallback.split('\n').map(line => `<p class="lyrics-plus-line
\* visible active">`)
PlainHtml(text) ==
    [kind |-> "plain", message |-> "", lyrics |-> NoLyrics, plain |-> text]

EmptyContent ==
    [kind |-> "empty", message |-> "", lyrics |-> NoLyrics, plain |-> NoText]

\* page.innerHTML is rebuilt: an empty content, a hidden viewport, a hidden
\* Re-sync button, no transform.
renderPageShell(w, track) ==
    [w EXCEPT !.content = EmptyContent,
              !.lineEls = <<>>,
              !.viewportHidden = TRUE,
              !.resyncVisible = FALSE,
              !.contentY = 0]

renderLyricsContent(w, html) ==
    IF html.kind = "lyrics"
    THEN [w EXCEPT !.content = html,
                   !.lineEls = [i \in 1..Len(html.lyrics) |-> {}]]
    ELSE IF html.kind = "plain"
    THEN [w EXCEPT !.content = html,
                   !.lineEls = [i \in 1..Len(SplitLines(html.plain)) |->
                                   {"visible", "active"}]]
    ELSE [w EXCEPT !.content = html, !.lineEls = <<>>]

\* A status text, and the count it quotes ("Found 2 version(s)").
StatusText(text) == [text |-> text, count |-> 0]

FoundVersions(n) == [text |-> "Found version(s)", count |-> n]

updateStatusIndicator(w, st, message) ==
    [w EXCEPT !.status = [status |-> st, message |-> message]]

\* The number of <p> children of the content element: its scroll height in
\* line heights.
ContentLines(w) ==
    IF w.content.kind = "message" THEN 1 ELSE Len(w.lineEls)

(***************************************************************************)
(* Offsets and the cache                                                   *)
(***************************************************************************)

\* A LocalStorage key that holds nothing: LocalStorage.get returns null.
NoBlob == [absent |-> TRUE]

\* A LocalStorage value that JSON.parse throws on.
CorruptBlob == [unparsable |-> TRUE]

\* The 100 ms one click on an offset button adds or takes.
OffsetStep == 100

\* How many steps away from 0 the offset buttons are followed.
MaxOffsetSteps == 1

DEFAULT_CONFIG == [autoCache |-> TRUE, layout |-> "right"]

\* The layouts the settings modal offers.
Layouts == {"right", "left"}

\* JSON.stringify(currentConfig)
ConfigBlob(w) == [autoCache |-> w.autoCache, layout |-> w.layout]

\* loadConfig with a catch that resets everything the extension stores.
loadConfigResettingAll(w) ==
    IF w.storedConfig = CorruptBlob
    THEN [w EXCEPT
            !.consoleErrors = @ \cup {"Error loading config"},
            !.notifications =
                @ \cup {"Lyrics Plus settings corrupted. Resetting to default."},
            !.autoCache = DEFAULT_CONFIG.autoCache,
            !.layout = DEFAULT_CONFIG.layout,
            !.storedConfig = NoBlob,
            !.songOffsets = EmptyObject,
            !.storedOffsets = NoBlob,
            !.cache = EmptyObject]
    ELSE IF w.storedConfig = NoBlob THEN w
    ELSE [w EXCEPT !.autoCache = w.storedConfig.autoCache,
                   !.layout = w.storedConfig.layout]

loadConfig(w) ==
    IF w.storedConfig = CorruptBlob
    THEN [w EXCEPT
            !.consoleErrors = @ \cup {"Error loading config"},
            !.notifications =
                @ \cup {"Lyrics Plus settings corrupted. Resetting to default."},
            !.autoCache = DEFAULT_CONFIG.autoCache,
            !.layout = DEFAULT_CONFIG.layout,
            !.storedConfig = NoBlob]
    ELSE IF w.storedConfig = NoBlob THEN w
    ELSE [w EXCEPT !.autoCache = w.storedConfig.autoCache,
                   !.layout = w.storedConfig.layout]

loadOffsets(w) ==
    IF w.storedOffsets = CorruptBlob
    THEN [w EXCEPT
            !.consoleErrors = @ \cup {"Error loading offsets"},
            !.notifications =
                @ \cup {"Lyrics Plus offsets corrupted. Resetting."},
            !.songOffsets = EmptyObject,
            !.storedOffsets = NoBlob]
    ELSE IF w.storedOffsets = NoBlob THEN w
    ELSE [w EXCEPT !.songOffsets = w.storedOffsets]

\* JSON.stringify(songOffsets) under OFFSETS_KEY.
saveOffsets(w) == [w EXCEPT !.storedOffsets = w.songOffsets]

\* songOffsets[uri] || 0
getOffsetForTrack(w, uri) ==
    IF uri \in DOMAIN w.songOffsets THEN w.songOffsets[uri] ELSE 0

\* What getCache() returns: the parsed store, {} when the key holds nothing
\* or holds what JSON.parse throws on.
getCache(w) == IF w.cache = CorruptBlob THEN EmptyObject ELSE w.cache

saveCache(w, c) == [w EXCEPT !.cache = c]

\* LocalStorage.remove(CACHE_KEY): the next getCache() reads {}.
clearCache(w) == [w EXCEPT !.cache = EmptyObject]

\* What a call of getCache() leaves behind: its catch block logs the error
\* and clears the store.
getCacheCaught(w) ==
    IF w.cache = CorruptBlob
    THEN clearCache([w EXCEPT !.consoleErrors =
                                  @ \cup {"Error reading cache, clearing it."}])
    ELSE w

\* The prefetch module's own getCache(): its catch block returns {} and
\* leaves the store as it is.
prefetchGetCache(w) == IF w.cache = CorruptBlob THEN EmptyObject ELSE w.cache

\* The entry stored for a track; Date.now() is written but never read.
CacheEntry(lyrics) == [lyrics |-> lyrics]

cacheCurrentSongLyrics(w) ==
    IF w.currentLyrics = NoLyrics \/ w.playerItem = NoUri THEN w
    ELSE LET trackUri == w.playerItem
             c        == getCache(w)
         IN  saveCache(getCacheCaught(w),
                       Put(c, trackUri, CacheEntry(w.currentLyrics)))

\* `track` is not defined in this function: reading track.uri throws as soon
\* as the entry exists, before the delete.
clearCurrentSongCache(w) ==
    LET trackUri == w.playerItem
    IN  IF trackUri = NoUri THEN w
        ELSE LET c == getCache(w)
             IN  IF trackUri \in DOMAIN c
                 THEN [w EXCEPT !.lastError = "ReferenceError"]
                 ELSE getCacheCaught(w)

(***************************************************************************)
(* updateLyricsUI                                                          *)
(***************************************************************************)

\* The scan from the last line down to the first whose time has come: a
\* 0-based index, or -1.
ActiveLineIndex(lyrics, adjustedProgressMs) ==
    LET reached == {i \in 1..Len(lyrics) : adjustedProgressMs >= lyrics[i].time}
    IN  IF reached = {} THEN -1
        ELSE (CHOOSE i \in reached : \A j \in reached : j <= i) - 1

\* lineElements[i] exists.
HasLine(w, i) == i >= 0 /\ i < Len(w.lineEls)

\* The translateY that centres line i: the viewport is one line high.
CentredY(i) == 0 - i

updateLyricsUI(w, progressMs) ==
    IF ~w.isPageVisible THEN w
    ELSE IF w.currentLyrics = NoLyrics THEN w
    ELSE
      LET trackUri == w.playerItem
          offset   == getOffsetForTrack(w, trackUri)
          adjustedProgressMs == progressMs - offset
          newActiveLineIndex ==
              ActiveLineIndex(w.currentLyrics, adjustedProgressMs)
          old == w.currentActiveLineIndex
      IN  IF newActiveLineIndex = old THEN w
          ELSE IF Len(w.lineEls) = 0 THEN w
          ELSE
            LET starts == ~w.lyricsStarted /\ newActiveLineIndex > -1
                els1 == IF HasLine(w, old)
                        THEN [w.lineEls EXCEPT ![old + 1] =
                                 (@ \ {"active"}) \cup {"past"}]
                        ELSE w.lineEls
                els2 == IF HasLine(w, newActiveLineIndex)
                        THEN [els1 EXCEPT ![newActiveLineIndex + 1] =
                                 (@ \ {"past"}) \cup {"visible", "active"}]
                        ELSE els1
            IN  [w EXCEPT
                   !.lyricsStarted = IF starts THEN TRUE ELSE @,
                   !.viewportHidden = IF starts THEN FALSE ELSE @,
                   !.lineEls = els2,
                   !.currentActiveLineIndex = newActiveLineIndex,
                   !.contentY =
                       IF w.isSynced /\ HasLine(w, newActiveLineIndex)
                       THEN CentredY(newActiveLineIndex)
                       ELSE @]

(***************************************************************************)
(* exportLRC                                                               *)
(***************************************************************************)

\* Number.prototype.toString of an integer.
RECURSIVE NatToString(_)
NatToString(n) ==
    IF n < 10 THEN <<Digits[n + 1]>>
    ELSE Append(NatToString(n \div 10), Digits[(n % 10) + 1])

toString(n) == IF n < 0 THEN <<"-">> \o NatToString(0 - n) ELSE NatToString(n)

\* String.prototype.padStart(n, "0")
RECURSIVE PadStartZero(_, _)
PadStartZero(str, n) ==
    IF Len(str) >= n THEN str ELSE PadStartZero(<<"0">> \o str, n)

\* The % of JavaScript: the remainder has the sign of the dividend.
Remainder(a, b) == IF a >= 0 THEN a % b ELSE 0 - ((0 - a) % b)

\* Math.round((secondsWithMs - Math.floor(secondsWithMs)) * 100), where
\* secondsWithMs is rem / 1000: the fraction is never negative.  (A time
\* whose last digit is 5 sits on the rounding boundary, where the floating
\* point quotient decides: the model's lyric times avoid that digit.)
Hundredths(rem) == ((rem % 1000) + 5) \div 10

\* One line of the exported file: `[${minutes}:${seconds}.${milliseconds}]`
\* and the words.
ExportedLine(line, offset) ==
    LET time         == line.time + offset
        minutes      == PadStartZero(toString(time \div 60000), 2)
        rem          == Remainder(time, 60000)
        seconds      == PadStartZero(toString(rem \div 1000), 2)
        milliseconds == PadEndZero(toString(Hundredths(rem)), 2)
    IN  <<"[">> \o minutes \o <<":">> \o seconds \o <<".">> \o milliseconds
            \o <<"]">> \o line.text \o <<"\n">>

RECURSIVE ExportedLines(_, _)
ExportedLines(lyrics, offset) ==
    IF lyrics = <<>> THEN <<>>
    ELSE ExportedLine(Head(lyrics), offset)
             \o ExportedLines(Tail(lyrics), offset)

exportLRC(w) ==
    IF w.currentLyrics = NoLyrics \/ w.playerItem = NoUri
    THEN [w EXCEPT !.notifications = @ \cup {"No lyrics to export."}]
    ELSE LET meta     == TrackMeta(w.playerItem)
             trackUri == w.playerItem
             offset   == getOffsetForTrack(w, trackUri)
         IN  [w EXCEPT !.lrcContent =
                 <<"[","a","r",":"," ">> \o meta.artist_name \o <<"]","\n">>
                 \o <<"[","t","i",":"," ">> \o meta.title \o <<"]","\n">>
                 \o <<"[","a","l",":"," ">> \o meta.album_title \o <<"]","\n">>
                 \o <<"[","o","f","f","s","e","t",":"," ">> \o toString(offset)
                 \o <<"]","\n","\n">>
                 \o ExportedLines(w.currentLyrics, offset)]

(***************************************************************************)
(* The settings modal: offsets and layout                                  *)
(***************************************************************************)

\* setOffsetForTrack that stores a zero like any other value.
setOffsetForTrackStoringZero(w, uri, offset) ==
    LET w1 == saveOffsets([w EXCEPT !.songOffsets = Put(@, uri, offset)])
    IN  updateLyricsUI(w1, w1.progress)

setOffsetForTrack(w, uri, offset) ==
    LET w1 == IF offset = 0
              THEN [w EXCEPT !.songOffsets = Delete(@, uri)]
              ELSE [w EXCEPT !.songOffsets = Put(@, uri, offset)]
        w2 == saveOffsets(w1)
    IN  updateLyricsUI(w2, w2.progress)

\* The offset buttons of the settings modal.
OnOffsetDecrease(w) ==
    LET currentTrackUri == w.playerItem
    IN  IF currentTrackUri = NoUri THEN w
        ELSE setOffsetForTrack(
                 w, currentTrackUri,
                 getOffsetForTrack(w, currentTrackUri) - OffsetStep)

OnOffsetIncrease(w) ==
    LET currentTrackUri == w.playerItem
    IN  IF currentTrackUri = NoUri THEN w
        ELSE setOffsetForTrack(
                 w, currentTrackUri,
                 getOffsetForTrack(w, currentTrackUri) + OffsetStep)

OnOffsetReset(w) ==
    LET currentTrackUri == w.playerItem
    IN  IF currentTrackUri = NoUri THEN w
        ELSE setOffsetForTrack(w, currentTrackUri, 0)

\* saveConfig(newConfig) for a new layout: the shell is rendered again and
\* filled with the lyrics that are loaded.
saveConfigLayout(w, value) ==
    LET w1 == [w EXCEPT !.layout = value]
        w2 == [w1 EXCEPT !.storedConfig = ConfigBlob(w1),
                         !.lyricsStarted = FALSE]
        w3 == renderPageShell(w2, w2.playerItem)
    IN  IF w3.currentLyrics # NoLyrics
        THEN updateLyricsUI(
                 renderLyricsContent(w3, LyricsHtml(w3.currentLyrics)),
                 w3.progress)
        ELSE w3

(***************************************************************************)
(* fetchLyrics                                                             *)
(***************************************************************************)

\* What a session has been answered so far, whatever it made of it: whether
\* an answer came back at all, whether one held plain lyrics, and the raw
\* synced texts that parse, each once, in the order they came.
Seen(seen, response) ==
    IF response = Rejected THEN seen
    ELSE IF response = Malformed THEN [seen EXCEPT !.reached = TRUE]
    ELSE [reached |-> TRUE,
          plain |-> seen.plain \/ response.plainLyrics \notin {NoText, <<>>},
          texts |-> IF /\ response.syncedLyrics \notin {NoText, <<>>}
                       /\ ParsedLRC[response.syncedLyrics] # NoLyrics
                    THEN Dedupe(Append(seen.texts, response.syncedLyrics))
                    ELSE seen.texts]

\* No session: the controller of a call that returned before its loop.
NoSession == 0

\* currentFetchController.abort()
\* An abort that also reaches the prefetch queries, as if silentFetchAndCache
\* had passed the signal of the foreground's controller to its query: they
\* fail at once.
AbortCurrentAndPrefetch(w) ==
    LET w1 == IF w.currentFetchController \in 1..Len(w.sessions)
              THEN [w EXCEPT
                      !.sessions[w.currentFetchController].aborted = TRUE]
              ELSE w
    IN  [w1 EXCEPT !.walks =
            [j \in 1..Len(w.walks) |->
                IF w.walks[j].pc = "query"
                THEN [w.walks[j] EXCEPT !.pc = "delay"]
                ELSE w.walks[j]]]

AbortCurrent(w) ==
    IF w.currentFetchController \in 1..Len(w.sessions)
    THEN [w EXCEPT !.sessions[w.currentFetchController].aborted = TRUE]
    ELSE w

\* The locals of a fetchLyrics call that reached its loop, which is
\* suspended in the query for searchPermutations[idx]. `seen` is the record
\* of what its queries were answered (see Seen).
NewSession(track, caller) ==
    [uri |-> track,
     searchPermutations |-> SearchPermutationsOf[track],
     idx |-> 1,
     plainLyricsFallback |-> NoText,
     providerIsReachable |-> FALSE,
     foundLyrics |-> {},
     aborted |-> FALSE,
     pc |-> "await",
     outcome |-> "none",
     caller |-> caller,
     seen |-> [reached |-> FALSE, plain |-> FALSE, texts |-> <<>>]]

\* The place of a frame whose call has returned and been forgotten.
FreeSlot ==
    [uri |-> NoUri, searchPermutations |-> <<>>, idx |-> 0,
     plainLyricsFallback |-> NoText, providerIsReachable |-> FALSE,
     foundLyrics |-> {}, aborted |-> FALSE, pc |-> "free",
     outcome |-> "none", caller |-> "event",
     seen |-> [reached |-> FALSE, plain |-> FALSE, texts |-> <<>>]]

\* Where the frame of a new call goes: the first free place.
FreeIndex(q) ==
    IF \E k \in 1..Len(q) : q[k].pc = "free"
    THEN CHOOSE k \in 1..Len(q) :
             q[k].pc = "free" /\ \A i \in 1..(k - 1) : q[i].pc # "free"
    ELSE Len(q) + 1

\* The call of session k has returned: a caller that awaits it is resumed in
\* the next microtask.
Returned(w, k, outcome) ==
    [w EXCEPT !.sessions[k].pc = "done",
              !.sessions[k].outcome = outcome,
              !.cacheAll.pc =
                  IF w.sessions[k].caller = "cacheAll" THEN "resume" ELSE @]

\* A test that never finds the track's lyrics loaded.
NeverLoaded(w, track) == FALSE

\* page.dataset.uri === track.uri && currentLyrics
AlreadyLoaded(w, track) == w.pageUri = track /\ w.currentLyrics # NoLyrics

\* fetchLyrics(track) up to its first await, or to its return when it makes
\* no query.
fetchLyrics(w, track, caller) ==
    LET w0 == [AbortCurrent(w) EXCEPT !.currentFetchController = NoSession]
    IN  IF track = NoUri
        THEN renderLyricsContent(
                 renderPageShell([w0 EXCEPT !.currentLyrics = NoLyrics], NoUri),
                 MessageHtml("No song playing."))
        ELSE
          LET w1 == [w0 EXCEPT !.latestFetchUri = track]
          IN  IF AlreadyLoaded(w1, track)
              THEN updateLyricsUI(w1, w1.progress)
              ELSE
                LET w1s == renderPageShell(
                              [w1 EXCEPT !.pageUri = track,
                                         !.currentLyrics = NoLyrics,
                                         !.availableLyrics = <<>>,
                                         !.currentActiveLineIndex = -1,
                                         !.lyricsStarted = FALSE],
                              track)
                    trackUri == track
                    c == getCache(w1s)
                    w2 == getCacheCaught(w1s)
                IN  IF trackUri \in DOMAIN c /\ track = w2.latestFetchUri
                    THEN LET w3 == [w2 EXCEPT
                                      !.currentLyrics = c[trackUri].lyrics]
                         IN  updateStatusIndicator(
                                 updateLyricsUI(
                                     renderLyricsContent(
                                         w3, LyricsHtml(w3.currentLyrics)),
                                     w3.progress),
                                 "online", StatusText("Lyrics Found (Cached)"))
                    ELSE LET w3 == updateStatusIndicator(
                                       renderLyricsContent(
                                           w2, MessageHtml("Loading...")),
                                       "checking", StatusText("Loading..."))
                             k  == FreeIndex(w3.sessions)
                         IN  [w3 EXCEPT
                                !.sessions =
                                    IF k > Len(w3.sessions)
                                    THEN Append(@, NewSession(track, caller))
                                    ELSE [@ EXCEPT ![k] =
                                             NewSession(track, caller)],
                                !.currentFetchController = k]

\* The branches after the loop.
Finish(w, k) ==
    LET s == w.sessions[k]
    IN  IF Len(w.availableLyrics) > 0
        THEN LET w1 == [w EXCEPT !.currentLyrics = w.availableLyrics[1]]
                 w2 == IF w1.autoCache THEN cacheCurrentSongLyrics(w1) ELSE w1
                 w3 == updateLyricsUI(
                           renderLyricsContent(w2, LyricsHtml(w2.currentLyrics)),
                           w2.progress)
             IN  Returned(
                     updateStatusIndicator(
                         w3, "online",
                         FoundVersions(Len(w3.availableLyrics))),
                     k, "synced")
        ELSE IF s.plainLyricsFallback # NoText
        THEN Returned(
                 updateStatusIndicator(
                     renderLyricsContent(w, PlainHtml(s.plainLyricsFallback)),
                     "not-found", StatusText("No Synced Lyrics Found")),
                 k, "plain")
        ELSE IF s.providerIsReachable
        THEN Returned(
                 updateStatusIndicator(
                     renderLyricsContent(w, MessageHtml("Lyrics not found.")),
                     "not-found", StatusText("No Lyrics Found")),
                 k, "notfound")
        ELSE Returned(
                 [updateStatusIndicator(
                      renderLyricsContent(
                          w,
                          MessageHtml("Lyrics provider seems to be offline.")),
                      "offline", StatusText("Provider Offline"))
                  EXCEPT !.currentFetchController = NoSession],
                 k, "offline")

\* The end of one pass of the loop: the next permutation's query, or the
\* branches after it.
NextPermutation(w, k) ==
    IF w.sessions[k].idx < Len(w.sessions[k].searchPermutations)
    THEN [w EXCEPT !.sessions[k].idx = @ + 1]
    ELSE Finish(w, k)

\* The query of session k is answered with `response`: the try block, from
\* the staleness check on.
QueryResolved(w, k, response) ==
    LET s  == w.sessions[k]
        w1 == [w EXCEPT !.sessions[k].seen = Seen(@, response)]
    IN  IF s.uri # w.latestFetchUri
        THEN Returned(w1, k, "stale")
        ELSE
          LET w2 == [w1 EXCEPT !.sessions[k].providerIsReachable = TRUE]
          IN  IF response = Malformed
              THEN NextPermutation(w2, k)  \* the TypeError is caught
              ELSE
                LET syncedLyricsText == response.syncedLyrics
                    w3 == IF s.plainLyricsFallback = NoText
                             /\ response.plainLyrics # NoText
                             /\ response.plainLyrics # <<>>
                          THEN [w2 EXCEPT !.sessions[k].plainLyricsFallback =
                                              response.plainLyrics]
                          ELSE w2
                    parsedLyrics == ParsedLRC[syncedLyricsText]
                    push == /\ syncedLyricsText # NoText
                            /\ syncedLyricsText # <<>>
                            /\ parsedLyrics # NoLyrics
                            /\ syncedLyricsText \notin s.foundLyrics
                    w4 == IF push
                          THEN [w3 EXCEPT
                                  !.availableLyrics = Append(@, parsedLyrics),
                                  !.sessions[k].foundLyrics =
                                      @ \cup {syncedLyricsText}]
                          ELSE w3
                IN  NextPermutation(w4, k)

\* QueryRejected without the catch block: the failure leaves fetchLyrics.
QueryRejectedUncaught(w, k) ==
    Returned([w EXCEPT !.sessions[k].seen = Seen(@, Rejected),
                       !.lastError = "NetworkError"],
             k, "none")

\* The query of session k fails (the network, a 5xx, an abort the transport
\* honours): the catch block.
QueryRejected(w, k) ==
    NextPermutation([w EXCEPT !.sessions[k].seen = Seen(@, Rejected)], k)

(***************************************************************************)
(* The queue prefetch                                                      *)
(***************************************************************************)

\* An entry of the upcoming queue.
QueueItem(uri) == [uri |-> uri, metadata |-> TrackMeta(uri)]

toUri(q) == q.uri

toMetaFromQueueItem(q) == q.metadata

\* cacheLyricsForUri writing into the snapshot silentFetchAndCache read
\* before its query instead of reading the cache again.
cacheLyricsForUriStale(w, uri, lyricsArray) ==
    IF uri = NoUri \/ lyricsArray = NoLyrics \/ Len(lyricsArray) = 0 THEN w
    ELSE LET j == CHOOSE i \in 1..Len(w.walks) :
                      w.walks[i].pc = "query" /\ w.walks[i].uri = uri
             c == w.walks[j].existing
         IN  saveCache(w, Put(c, uri, CacheEntry(lyricsArray)))

cacheLyricsForUri(w, uri, lyricsArray) ==
    IF uri = NoUri \/ lyricsArray = NoLyrics \/ Len(lyricsArray) = 0 THEN w
    ELSE LET c == prefetchGetCache(w)
         IN  saveCache(w, Put(c, uri, CacheEntry(lyricsArray)))

\* String(plainLyrics).split("\n").map((t, i) => ({time: i*2000, text: t||Note}))
PlainToLines(plain) ==
    LET lines == SplitLines(plain)
    IN  [i \in 1..Len(lines) |->
            [time |-> (i - 1) * 2000,
             text |-> IF lines[i] = <<>> THEN <<Note>> ELSE lines[i]]]

\* silentFetchAndCache(queue[i]) of walk j up to its await, or to its return
\* when it makes no query: the walk then sleeps its 150 ms.
silentFetchAndCache(w, j) ==
    LET walk == w.walks[j]
        item == walk.queue[walk.i]
        uri  == toUri(item)
        existing == prefetchGetCache(w)
        meta == toMetaFromQueueItem(item)
    IN  IF uri = NoUri
        THEN [w EXCEPT !.walks[j].pc = "delay"]
        ELSE IF uri \in DOMAIN existing /\ Len(existing[uri].lyrics) > 0
        THEN [w EXCEPT !.walks[j].pc = "delay"]
        ELSE IF meta.title = <<>> \/ meta.artist_name = <<>>
        THEN [w EXCEPT !.walks[j].pc = "delay"]
        ELSE [w EXCEPT !.walks[j].pc = "query",
                       !.walks[j].uri = uri,
                       !.walks[j].existing = existing]

\* The rest of silentFetchAndCache once its query is answered.
PrefetchResolved(w, j, resp) ==
    LET walk == w.walks[j]
        hasSynced == /\ resp # Malformed
                     /\ resp.syncedLyrics # NoText
                     /\ resp.syncedLyrics # <<>>
        hasPlain  == /\ resp # Malformed
                     /\ resp.plainLyrics # NoText
                     /\ resp.plainLyrics # <<>>
        parsed1 == IF hasSynced THEN PrefetchParsedLRC[resp.syncedLyrics]
                   ELSE NoLyrics
        parsed  == IF parsed1 = NoLyrics /\ hasPlain
                   THEN PlainToLines(resp.plainLyrics)
                   ELSE parsed1
        w1 == IF parsed # NoLyrics /\ Len(parsed) > 0
              THEN cacheLyricsForUri(w, walk.uri, parsed)
              ELSE w
    IN  [w1 EXCEPT !.walks[j].pc = "delay"]

\* silentFetchAndCache without its try: the rejection reaches the catch of
\* prefetchQueueLyricsSilently, which is outside the loop.
PrefetchRejectedOutsideLoop(w, j) ==
    [w EXCEPT !.walks = Without(@, j)]

\* The query failed: the catch of silentFetchAndCache.
PrefetchRejected(w, j) ==
    [w EXCEPT !.walks[j].pc = "delay"]

\* The for loop of prefetchQueueLyricsSilently at the top of a pass.
PrefetchLoop(w, j) ==
    IF w.walks[j].i > Len(w.walks[j].queue)
    THEN [w EXCEPT !.walks = Without(@, j)]  \* the walk returns
    ELSE silentFetchAndCache(w, j)

\* prefetchQueueLyricsSilently(), the songchange listener of the prefetch
\* module, up to `await getQueue()`. With nothing queued the loop has no pass.
prefetchQueueLyricsSilently(w) ==
    IF w.queue = <<>> THEN w
    ELSE [w EXCEPT !.walks = Append(@,
             [queue |-> <<>>, i |-> 1, pc |-> "queue", uri |-> NoUri,
              existing |-> EmptyObject])]

(***************************************************************************)
(* Event handlers                                                          *)
(***************************************************************************)

\* The frames of the calls that are suspended in a query.
Suspended(q) == SelectSeq(q, LAMBDA s : s.pc = "await")

\* An event handler starts with no exception pending, nothing shown and
\* nothing logged. The frames of the calls that returned in the last step are
\* gone; the controller of such a call is then one that aborts nothing.
Fresh(w) ==
    LET c == w.currentFetchController
    IN  [w EXCEPT
           !.lastError = NoError,
           !.notifications = {},
           !.consoleErrors = {},
           !.lrcContent = NoText,
           !.sessions = [k \in 1..Len(w.sessions) |->
                            IF w.sessions[k].pc = "await"
                            THEN w.sessions[k] ELSE FreeSlot],
           !.currentFetchController =
               IF c \in 1..Len(w.sessions) /\ w.sessions[c].pc = "await"
               THEN c ELSE NoSession]

\* Player's "songchange": the main listener, then the prefetch module's.
OnSongChange(w, item) ==
    LET w1 == AbortCurrent(w)
        w2 == fetchLyrics(w1, item, "event")
    IN  prefetchQueueLyricsSilently(w2)

togglePage(w, visible) ==
    LET w1 == [w EXCEPT !.isPageVisible = visible]
    IN  IF visible
        THEN LET currentTrack == w1.playerItem
                 w2 == IF currentTrack # NoUri
                       THEN fetchLyrics(w1, currentTrack, "event")
                       ELSE w1
             IN  updateLyricsUI(w2, w2.progress)
        ELSE w1

\* Player's "onprogress".
OnProgress(w, data) ==
    IF w.isPageVisible THEN updateLyricsUI(w, data) ELSE w

\* The id setTimeout returns: one that no pending timer has and that
\* differs from the id it returned last.
FreeTimer(pending, last) ==
    CHOOSE id \in 1..MaxTimers :
        /\ id \notin pending \cup {last}
        /\ \A other \in 1..(id - 1) : other \in pending \cup {last}

Max(a, b) == IF a >= b THEN a ELSE b

Min(a, b) == IF a <= b THEN a ELSE b

\* The viewport's wheel listener; deltaY is in line heights.
\* The wheel listener without its clearTimeout(scrollTimeout).
OnWheelKeepingTimer(w, deltaY) ==
    IF w.currentLyrics = NoLyrics THEN w
    ELSE LET cleared   == w.pendingTimers
             currentY  == w.contentY
             maxScroll == 0
             minScroll == 0 - (ContentLines(w) - 1)
             newY      == Max(minScroll, Min(maxScroll, currentY - deltaY))
             id        == FreeTimer(cleared, w.scrollTimeout)
         IN  [w EXCEPT !.isSynced = FALSE,
                       !.resyncVisible = TRUE,
                       !.contentY = newY,
                       !.scrollTimeout = id,
                       !.pendingTimers = cleared \cup {id}]

OnWheel(w, deltaY) ==
    IF w.currentLyrics = NoLyrics THEN w
    ELSE LET cleared   == w.pendingTimers \ {w.scrollTimeout}
             currentY  == w.contentY
             maxScroll == 0
             minScroll == 0 - (ContentLines(w) - 1)
             newY      == Max(minScroll, Min(maxScroll, currentY - deltaY))
             id        == FreeTimer(cleared, w.scrollTimeout)
         IN  [w EXCEPT !.isSynced = FALSE,
                       !.resyncVisible = TRUE,
                       !.contentY = newY,
                       !.scrollTimeout = id,
                       !.pendingTimers = cleared \cup {id}]

\* The callback of the inactivity timer.
OnScrollTimeout(w, id) ==
    LET w1 == [w EXCEPT !.pendingTimers = @ \ {id},
                        !.isSynced = TRUE,
                        !.resyncVisible = FALSE]
    IN  updateLyricsUI(w1, w1.progress)

\* A click on the Re-sync button.
OnResyncClick(w) ==
    LET w1 == [w EXCEPT !.isSynced = TRUE, !.resyncVisible = FALSE]
    IN  updateLyricsUI(w1, w1.progress)

\* The loop of "Cache All Lyrics" at the top of a pass: the call of
\* fetchLyrics for the next row, or the end.
CacheAllLoop(w) ==
    IF w.cacheAll.i > Len(w.cacheAll.rows)
    THEN [w EXCEPT !.cacheAll.pc = "done",
                   !.notifications = @ \cup {"All lyrics cached!"}]
    ELSE LET w1 == fetchLyrics(w, w.cacheAll.rows[w.cacheAll.i], "cacheAll")
         IN  IF w1.currentFetchController # NoSession
             THEN [w1 EXCEPT !.cacheAll.pc = "fetch"]
             ELSE [w1 EXCEPT !.cacheAll.pc = "resume"]

\* After `await fetchLyrics(...)`: cacheCurrentSongLyrics(), the next pass.
CacheAllResumed(w) ==
    CacheAllLoop([cacheCurrentSongLyrics(w) EXCEPT !.cacheAll.i = @ + 1])

(***************************************************************************)
(* Initial states                                                          *)
(***************************************************************************)

\* The extension has started with nothing playing and nothing stored.
InitCommon ==
    /\ playerItem = NoUri
    /\ progress = 0
    /\ songOffsets = EmptyObject
    /\ autoCache = DEFAULT_CONFIG.autoCache
    /\ layout = DEFAULT_CONFIG.layout
    /\ storedConfig = NoBlob
    /\ storedOffsets = NoBlob
    /\ notifications = {}
    /\ consoleErrors = {}
    /\ currentLyrics = NoLyrics
    /\ availableLyrics = <<>>
    /\ currentActiveLineIndex = -1
    /\ lyricsStarted = FALSE
    /\ isSynced = TRUE
    /\ scrollTimeout = 0
    /\ pendingTimers = {}
    /\ latestFetchUri = NoUri
    /\ currentFetchController = NoSession
    /\ pageUri = NoUri
    /\ content = EmptyContent
    /\ lineEls = <<>>
    /\ viewportHidden = TRUE
    /\ resyncVisible = FALSE
    /\ contentY = 0
    /\ status = [status |-> "", message |-> StatusText("Checking...")]
    /\ lastError = NoError
    /\ sessions = <<>>
    /\ walks = <<>>
    /\ cacheAll = [pc |-> "idle", rows |-> <<>>, i |-> 1]
    /\ metadata = NoMeta
    /\ permutations = <<>>
    /\ rawText = <<>>
    /\ cleanedText = NoText
    /\ lrcText = NoText
    /\ parseResult = <<>>
    /\ lrcContent = NoText
    /\ setupPc = "done"
    /\ prefetchParseResult = <<>>

\* Nothing is queued, nothing is cached, the page is closed.
Init ==
    /\ InitCommon
    /\ isPageVisible = FALSE
    /\ queue = <<>>
    /\ cache = EmptyObject

\* The page has been opened while nothing played.
CacheInit ==
    /\ InitCommon
    /\ isPageVisible = TRUE
    /\ queue = <<>>
    /\ cache = EmptyObject

\* The page has been opened while nothing played; one track is queued.
PrefetchInit ==
    /\ InitCommon
    /\ isPageVisible = TRUE
    /\ queue = <<QueueItem("B")>>
    /\ cache = EmptyObject

\* The state is the record w.
Has(w) ==
    /\ playerItem = w.playerItem
    /\ progress = w.progress
    /\ queue = w.queue
    /\ cache = w.cache
    /\ songOffsets = w.songOffsets
    /\ autoCache = w.autoCache
    /\ layout = w.layout
    /\ storedConfig = w.storedConfig
    /\ storedOffsets = w.storedOffsets
    /\ notifications = w.notifications
    /\ consoleErrors = w.consoleErrors
    /\ currentLyrics = w.currentLyrics
    /\ availableLyrics = w.availableLyrics
    /\ isPageVisible = w.isPageVisible
    /\ currentActiveLineIndex = w.currentActiveLineIndex
    /\ lyricsStarted = w.lyricsStarted
    /\ isSynced = w.isSynced
    /\ scrollTimeout = w.scrollTimeout
    /\ pendingTimers = w.pendingTimers
    /\ latestFetchUri = w.latestFetchUri
    /\ currentFetchController = w.currentFetchController
    /\ pageUri = w.pageUri
    /\ content = w.content
    /\ lineEls = w.lineEls
    /\ viewportHidden = w.viewportHidden
    /\ resyncVisible = w.resyncVisible
    /\ contentY = w.contentY
    /\ status = w.status
    /\ lastError = w.lastError
    /\ sessions = w.sessions
    /\ walks = w.walks
    /\ cacheAll = w.cacheAll
    /\ metadata = w.metadata
    /\ permutations = w.permutations
    /\ rawText = w.rawText
    /\ cleanedText = w.cleanedText
    /\ lrcText = w.lrcText
    /\ parseResult = w.parseResult
    /\ lrcContent = w.lrcContent
    /\ setupPc = w.setupPc
    /\ prefetchParseResult = w.prefetchParseResult

\* The state the script's declarations leave, over what LocalStorage holds
\* from earlier runs.
Declared(config, offsets, stored) ==
    [playerItem |-> NoUri, progress |-> 0, queue |-> <<>>, cache |-> stored,
     songOffsets |-> EmptyObject, autoCache |-> DEFAULT_CONFIG.autoCache,
     layout |-> DEFAULT_CONFIG.layout, storedConfig |-> config,
     storedOffsets |-> offsets, notifications |-> {}, consoleErrors |-> {},
     currentLyrics |-> NoLyrics, availableLyrics |-> <<>>,
     isPageVisible |-> FALSE, currentActiveLineIndex |-> -1,
     lyricsStarted |-> FALSE, isSynced |-> TRUE, scrollTimeout |-> 0,
     pendingTimers |-> {}, latestFetchUri |-> NoUri,
     currentFetchController |-> NoSession, pageUri |-> NoUri,
     content |-> EmptyContent, lineEls |-> <<>>, viewportHidden |-> TRUE,
     resyncVisible |-> FALSE, contentY |-> 0,
     status |-> [status |-> "", message |-> StatusText("Checking...")],
     lastError |-> NoError, sessions |-> <<>>, walks |-> <<>>,
     cacheAll |-> [pc |-> "idle", rows |-> <<>>, i |-> 1],
     metadata |-> NoMeta, permutations |-> <<>>, rawText |-> <<>>,
     cleanedText |-> NoText, lrcText |-> NoText, parseResult |-> <<>>,
     lrcContent |-> NoText, setupPc |-> "done",
     prefetchParseResult |-> <<>>]

\* What LocalStorage can hold under each key when the extension starts.
ConfigBlobs ==
    {NoBlob, CorruptBlob, [autoCache |-> FALSE, layout |-> "left"]}

OffsetBlobs == {NoBlob, CorruptBlob, Put(EmptyObject, "A", OffsetStep)}

CacheBlobs ==
    {CorruptBlob, Put(EmptyObject, "A", CacheEntry(parseLRC(SyncedA1)))}

\* The initial setup with nothing playing: loadConfig(), loadOffsets().
StartInit ==
    \E config \in ConfigBlobs, offsets \in OffsetBlobs, stored \in CacheBlobs :
        Has(loadOffsets(loadConfig(Declared(config, offsets, stored))))

\* The script's declarations have run, the initial setup has not.
LoadInit ==
    \E config \in ConfigBlobs, offsets \in OffsetBlobs, stored \in CacheBlobs :
        Has([Declared(config, offsets, stored) EXCEPT
                !.setupPc = "loadConfig"])

\* The extension has started; some track's metadata is at hand.
PermInit ==
    \E m \in Metas :
        Has([Declared(NoBlob, NoBlob, EmptyObject) EXCEPT !.metadata = m])

\* Pieces of the titles and artist names cleanText is given: a word, the
\* opening of a dash clause that ends in half a keyword, the keyword's other
\* half, a bracket, a featured artist, a second artist, a space.
Fragments ==
    { <<"T">>,
      <<" ","-"," ","L","i">>,
      <<"v","e">>,
      <<"(","x",")">>,
      <<" ","f","e","a","t","."," ","Y">>,
      <<","," ","Z">>,
      <<" ">> }

\* How many pieces a text is made of, at most.
MaxFragments == 4

\* The texts made of at most n pieces.
RECURSIVE Joined(_)
Joined(n) ==
    IF n = 0 THEN {<<>>}
    ELSE LET shorter == Joined(n - 1)
         IN  shorter \cup {s \o f : s \in shorter, f \in Fragments}

CleanTexts == Joined(MaxFragments)

\* The extension has started; some text is at hand.
CleanInit ==
    \E t \in CleanTexts :
        Has([Declared(NoBlob, NoBlob, EmptyObject) EXCEPT !.rawText = t])

\* Lines of the texts parseLRC is given: two lines of equal time, an earlier
\* one, one with three digits of fraction, one with a colon before the
\* fraction and no words, one without a timestamp, one whose timestamp
\* follows other characters, one whose minutes have a single digit, and one
\* after the twelfth minute with three digits of fraction.
LrcLines ==
    { <<"[","0","0",":","0","1",".","0","0","]","a">>,
      <<"[","0","0",":","0","1",".","0","0","]","b">>,
      <<"[","0","0",":","0","0",".","5","0","]","c">>,
      <<"[","0","0",":","0","2",".","5","0","0","]","d">>,
      <<"[","0","0",":","0","4",":","0","0","]">>,
      <<"x">>,
      <<"x","[","0","0",":","0","3",".","0","0","]","e">>,
      <<"[","0",":","0","1",".","0","0","]","z">>,
      <<"[","1","2",":","3","4",".","0","5","6","]","f">> }

\* How many lines a text has, at most.
MaxLines == 3

\* The texts of at most n lines, joined by line feeds.
RECURSIVE JoinedLines(_)
JoinedLines(n) ==
    IF n = 1 THEN LrcLines
    ELSE LET shorter == JoinedLines(n - 1)
         IN  shorter \cup {s \o <<"\n">> \o l : s \in shorter, l \in LrcLines}

\* The empty text and the texts of lines.
LrcTexts == {<<>>} \cup JoinedLines(MaxLines)

\* The extension has started; some timed text is at hand.
ParseInit ==
    \E t \in LrcTexts :
        Has([Declared(NoBlob, NoBlob, EmptyObject) EXCEPT !.lrcText = t])

\* Timed texts whose lines were stored by earlier runs: a line at zero and
\* one 50 ms after a second, two lines on tenths of a second, a line 4 ms
\* before a minute, a line after the first minute.
ExportTexts ==
    { <<"[","0","0",":","0","0",".","0","0","]","a","\n","[","0","0",":","0","1",".","0","5","]","b">>,
      <<"[","0","0",":","0","1",".","0","0","]","a","\n","[","0","0",":","0","2",".","5","0","]","b">>,
      <<"[","0","0",":","5","9",".","9","9","6","]","a">>,
      <<"[","0","1",":","0","5",".","3","0","]","a">> }

\* The page is open; the store holds lyrics of both tracks.
ExportInit ==
    \E t \in ExportTexts :
        /\ InitCommon
        /\ isPageVisible = TRUE
        /\ queue = <<>>
        /\ cache = Put(Put(EmptyObject, "A", CacheEntry(parseLRC(t))),
                       "B", CacheEntry(parseLRC(SyncedB1)))

\* Queue items the host can hand out: one without a uri, one without a
\* title, one without an artist.
NoUriItem == [uri |-> NoUri, metadata |-> TrackMeta("C")]

UntitledItem ==
    [uri |-> "D", metadata |-> [TrackMeta("D") EXCEPT !.title = <<>>]]

ArtistlessItem ==
    [uri |-> "D", metadata |-> [TrackMeta("D") EXCEPT !.artist_name = <<>>]]

\* A queue of tracks that are not played in the meantime: a track, the
\* three items that miss something, another track.
WalkQueue ==
    <<QueueItem("C"), NoUriItem, UntitledItem, ArtistlessItem, QueueItem("D")>>

\* The page is closed; the store holds the lyrics of the tracks that play.
WalkInit ==
    /\ InitCommon
    /\ isPageVisible = FALSE
    /\ queue = WalkQueue
    /\ cache = Put(Put(EmptyObject, "A", CacheEntry(parseLRC(SyncedA1))),
                   "B", CacheEntry(parseLRC(SyncedB1)))

\* The page is closed; the store holds the lyrics of A from an earlier run;
\* B is queued.
BackgroundInit ==
    /\ InitCommon
    /\ isPageVisible = FALSE
    /\ queue = <<QueueItem("B")>>
    /\ cache = Put(EmptyObject, "A", CacheEntry(parseLRC(SyncedA1)))

\* The settings stored by an earlier run have autoCache off; the page is
\* open, the cache is empty, B is queued.
ManualInit ==
    Has([loadOffsets(loadConfig(
             Declared([autoCache |-> FALSE, layout |-> "left"],
                      NoBlob, EmptyObject)))
         EXCEPT !.isPageVisible = TRUE, !.queue = <<QueueItem("B")>>])

\* The store holds the lyrics of both tracks from an earlier run; nothing
\* is queued, the page is closed.
SyncInit ==
    /\ InitCommon
    /\ isPageVisible = FALSE
    /\ queue = <<>>
    /\ cache = Put(Put(EmptyObject, "A", CacheEntry(parseLRC(SyncedA1))),
                   "B", CacheEntry(parseLRC(SyncedB1)))

(***************************************************************************)
(* Actions                                                                 *)
(***************************************************************************)

\* A continuation that is due in the next microtask runs before any event.
NoMicrotask == cacheAll.pc # "resume"

\* The host starts another track (or stops): the songchange listeners run.
SongChange ==
    \E item \in Uris \cup {NoUri} :
        /\ setupPc = "done"
        /\ NoMicrotask
        /\ Len(Suspended(sessions)) < MaxSessions
        /\ \/ queue = <<>>
           \/ Len(walks) < MaxWalks
           \/ Suspended(sessions) = <<>> /\ Len(walks) < MaxIdleWalks
        /\ Becomes(OnSongChange(
               [Fresh(World) EXCEPT !.playerItem = item, !.progress = 0],
               item))

\* The Lyrics button, the close button or Escape.
TogglePage ==
    /\ NoMicrotask
    /\ Len(Suspended(sessions)) < MaxSessions
    /\ Becomes(togglePage(Fresh(World), ~isPageVisible))

\* The query session k waits for is answered.
QueryResolvesOf(k) ==
    /\ NoMicrotask
    /\ k \in 1..Len(sessions)
    /\ sessions[k].pc = "await"
    /\ \E response \in ProviderResponses(sessions[k].uri) :
           Becomes(QueryResolved(Fresh(World), k, response))

\* The query session k waits for fails.
QueryRejectsOf(k) ==
    /\ NoMicrotask
    /\ k \in 1..Len(sessions)
    /\ sessions[k].pc = "await"
    /\ Becomes(QueryRejected(Fresh(World), k))

QueryResolves == \E k \in 1..MaxSessions : QueryResolvesOf(k)

QueryRejects == \E k \in 1..MaxSessions : QueryRejectsOf(k)

\* Playback moves on (or the user seeks): an onprogress event.
Progress ==
    \E p \in ProgressValues :
        /\ NoMicrotask
        /\ playerItem # NoUri
        /\ Becomes(OnProgress([Fresh(World) EXCEPT !.progress = p], p))

\* The user scrolls the lyrics by one line.
Wheel ==
    \E deltaY \in {-1, 1} :
        /\ NoMicrotask
        /\ isPageVisible
        /\ currentLyrics # NoLyrics
        /\ \E id \in 1..MaxTimers : id \notin pendingTimers \cup {scrollTimeout}
        /\ Becomes(OnWheel(Fresh(World), deltaY))

\* Three seconds have passed since a timer was set.
ScrollTimeout ==
    \E id \in pendingTimers :
        /\ NoMicrotask
        /\ Becomes(OnScrollTimeout(Fresh(World), id))

ResyncClick ==
    /\ NoMicrotask
    /\ isPageVisible
    /\ resyncVisible
    /\ Becomes(OnResyncClick(Fresh(World)))

\* The settings button "Cache Current Song".
CacheNowClick ==
    /\ NoMicrotask
    /\ isPageVisible
    /\ Becomes(cacheCurrentSongLyrics(Fresh(World)))

\* The settings button "Clear Current Cache".
ClearCurrentClick ==
    /\ NoMicrotask
    /\ isPageVisible
    /\ Becomes(clearCurrentSongCache(Fresh(World)))

\* The settings button "Clear All Cache".
ClearAllClick ==
    /\ NoMicrotask
    /\ isPageVisible
    /\ Becomes(clearCache(Fresh(World)))

\* The offset buttons of the settings modal; the offset of a track is
\* followed MaxOffsetSteps steps away from 0.
OffsetDecreaseClick ==
    /\ NoMicrotask
    /\ isPageVisible
    /\ playerItem # NoUri
    /\ getOffsetForTrack(World, playerItem) > 0 - MaxOffsetSteps * OffsetStep
    /\ Becomes(OnOffsetDecrease(Fresh(World)))

OffsetIncreaseClick ==
    /\ NoMicrotask
    /\ isPageVisible
    /\ playerItem # NoUri
    /\ getOffsetForTrack(World, playerItem) < MaxOffsetSteps * OffsetStep
    /\ Becomes(OnOffsetIncrease(Fresh(World)))

OffsetResetClick ==
    /\ NoMicrotask
    /\ isPageVisible
    /\ playerItem # NoUri
    /\ Becomes(OnOffsetReset(Fresh(World)))

\* A layout button of the settings modal.
LayoutClick ==
    \E value \in Layouts :
        /\ NoMicrotask
        /\ isPageVisible
        /\ Becomes(saveConfigLayout(Fresh(World), value))

\* getSearchPermutations(meta) is called for the metadata at hand.
Permute ==
    /\ permutations = <<>>
    /\ Becomes([Fresh(World) EXCEPT
                   !.permutations = getSearchPermutations(metadata)])

\* The initial setup: loadConfig().
LoadConfig ==
    /\ setupPc = "loadConfig"
    /\ Becomes([loadConfig(World) EXCEPT !.setupPc = "loadOffsets"])

\* The initial setup: loadOffsets().
LoadOffsets ==
    /\ setupPc = "loadOffsets"
    /\ Becomes([loadOffsets(World) EXCEPT !.setupPc = "done"])

\* The user clicks "Export LRC" in the settings.
ExportClick ==
    /\ NoMicrotask
    /\ isPageVisible
    /\ Becomes(exportLRC(Fresh(World)))

\* cleanText(text) is called for the text at hand.
Clean ==
    /\ cleanedText = NoText
    /\ Becomes([Fresh(World) EXCEPT !.cleanedText = cleanText(rawText)])

\* parseLRC(lrcText) is called for the text at hand.
Parse ==
    /\ parseResult = <<>>
    /\ Becomes([Fresh(World) EXCEPT !.parseResult = parseLRC(lrcText)])

\* The prefetch module's parseLRC(lrcText) is called for the text at hand.
PrefetchParse ==
    /\ prefetchParseResult = <<>>
    /\ Becomes([Fresh(World) EXCEPT
                   !.prefetchParseResult = prefetchParseLRC(lrcText)])

\* getQueue() has answered: the first pass of the walk's loop.
PrefetchBegins ==
    \E j \in 1..Len(walks) :
        /\ NoMicrotask
        /\ walks[j].pc = "queue"
        /\ Becomes(PrefetchLoop(
               [Fresh(World) EXCEPT !.walks[j].queue = queue], j))

PrefetchResolves ==
    \E j \in 1..Len(walks) :
        /\ NoMicrotask
        /\ walks[j].pc = "query"
        /\ \E resp \in ProviderResponses(walks[j].uri) :
               Becomes(PrefetchResolved(Fresh(World), j, resp))

PrefetchRejects ==
    \E j \in 1..Len(walks) :
        /\ NoMicrotask
        /\ walks[j].pc = "query"
        /\ Becomes(PrefetchRejected(Fresh(World), j))

\* The 150 ms between two items have passed: the next pass.
PrefetchDelayEnds ==
    \E j \in 1..Len(walks) :
        /\ NoMicrotask
        /\ walks[j].pc = "delay"
        /\ Becomes(PrefetchLoop(
               [Fresh(World) EXCEPT !.walks[j].i = @ + 1,
                                    !.walks[j].uri = NoUri,
                                    !.walks[j].existing = EmptyObject], j))

\* The playlists and albums "Cache All Lyrics" can be asked for.
Playlists == { <<"B">>, <<"A", "B">> }

\* The context menu item "Cache All Lyrics": the rows are requested.
CacheAllClick ==
    /\ NoMicrotask
    /\ cacheAll.pc = "idle"
    /\ Becomes([Fresh(World) EXCEPT
                   !.cacheAll.pc = "rows",
                   !.notifications = @ \cup {"Caching lyrics..."}])

\* The rows arrive: the first pass of the loop.
CacheAllRows ==
    \E rows \in Playlists :
        /\ NoMicrotask
        /\ cacheAll.pc = "rows"
        /\ Len(Suspended(sessions)) < MaxSessions
        /\ Becomes(CacheAllLoop(
               [Fresh(World) EXCEPT !.cacheAll.rows = rows, !.cacheAll.i = 1]))

\* The continuation after `await fetchLyrics(...)`.
CacheAllResumes ==
    /\ cacheAll.pc = "resume"
    /\ Len(Suspended(sessions)) < MaxSessions
    /\ Becomes(CacheAllResumed(Fresh(World)))

(***************************************************************************)
(* Specifications                                                          *)
(***************************************************************************)

\* The foreground resolution: track changes, the page, provider answers.
Next ==
    \/ SongChange
    \/ TogglePage
    \/ QueryResolves
    \/ QueryRejects

Spec == Init /\ [][Next]_vars

\* The cache and the flows that write it while nothing is queued: the
\* foreground resolution, the settings buttons, "Cache All Lyrics".
CacheNext ==
    \/ SongChange
    \/ QueryResolves
    \/ QueryRejects
    \/ CacheNowClick
    \/ ClearCurrentClick
    \/ ClearAllClick
    \/ CacheAllClick
    \/ CacheAllRows
    \/ CacheAllResumes

CacheSpec == CacheInit /\ [][CacheNext]_vars

\* The queue prefetch beside the foreground resolution and the settings
\* buttons.
PrefetchNext ==
    \/ SongChange
    \/ QueryResolves
    \/ QueryRejects
    \/ CacheNowClick
    \/ ClearCurrentClick
    \/ ClearAllClick
    \/ PrefetchBegins
    \/ PrefetchResolves
    \/ PrefetchRejects
    \/ PrefetchDelayEnds

PrefetchSpec == PrefetchInit /\ [][PrefetchNext]_vars

\* Playback, the manual scroll and the settings that move or redraw the
\* lines, over lyrics that come from the cache.
SyncNext ==
    \/ SongChange
    \/ TogglePage
    \/ Progress
    \/ Wheel
    \/ ScrollTimeout
    \/ ResyncClick
    \/ OffsetDecreaseClick
    \/ OffsetIncreaseClick
    \/ OffsetResetClick
    \/ LayoutClick

SyncSpec == SyncInit /\ [][SyncNext]_vars

\* Playback and the offset buttons while the provider is being asked: the
\* page is open, the store holds the lyrics of A from an earlier run.
PlayInit ==
    /\ InitCommon
    /\ isPageVisible = TRUE
    /\ queue = <<>>
    /\ cache = Put(EmptyObject, "A", CacheEntry(parseLRC(SyncedA1)))

PlayNext ==
    \/ SongChange
    \/ QueryResolves
    \/ QueryRejects
    \/ Progress
    \/ OffsetDecreaseClick
    \/ OffsetIncreaseClick
    \/ OffsetResetClick

PlaySpec == PlayInit /\ [][PlayNext]_vars

\* getSearchPermutations over the metadata a track can carry.
PermNext == Permute

PermSpec == PermInit /\ [][PermNext]_vars

\* cleanText over texts made of the pieces.
CleanNext == Clean

CleanSpec == CleanInit /\ [][CleanNext]_vars

\* The two parseLRC functions over texts made of the lines.
ParseNext ==
    \/ Parse
    \/ PrefetchParse

ParseSpec == ParseInit /\ [][ParseNext]_vars

\* The offset buttons and the export of the lines on show.
ExportNext ==
    \/ SongChange
    \/ OffsetDecreaseClick
    \/ OffsetIncreaseClick
    \/ OffsetResetClick
    \/ ExportClick

ExportSpec == ExportInit /\ [][ExportNext]_vars

\* Track changes and the walks they start over a queue of five items.
WalkNext ==
    \/ SongChange
    \/ PrefetchBegins
    \/ PrefetchResolves
    \/ PrefetchRejects
    \/ PrefetchDelayEnds

WalkSpec == WalkInit /\ [][WalkNext]_vars

\* The foreground (track changes, the page, the provider's answers) beside
\* the walks.
BackgroundNext ==
    \/ SongChange
    \/ TogglePage
    \/ QueryResolves
    \/ QueryRejects
    \/ PrefetchBegins
    \/ PrefetchResolves
    \/ PrefetchRejects
    \/ PrefetchDelayEnds

BackgroundSpec == BackgroundInit /\ [][BackgroundNext]_vars

\* Everything that can write the cache while autoCache is off and a track
\* is queued: the foreground resolution, "Cache Current Song", the walks.
ManualNext ==
    \/ SongChange
    \/ QueryResolves
    \/ QueryRejects
    \/ CacheNowClick
    \/ PrefetchBegins
    \/ PrefetchResolves
    \/ PrefetchRejects
    \/ PrefetchDelayEnds

ManualSpec == ManualInit /\ [][ManualNext]_vars

\* The initial setup over what LocalStorage holds, then the track changes
\* that make fetchLyrics read the cache, and the provider's answers.
LoadNext ==
    \/ LoadConfig
    \/ LoadOffsets
    \/ SongChange
    \/ QueryResolves
    \/ QueryRejects

LoadSpec == LoadInit /\ [][LoadNext]_vars

\* The first run after LocalStorage was damaged.
StartNext ==
    \/ SongChange
    \/ TogglePage
    \/ QueryResolves
    \/ QueryRejects
    \/ CacheNowClick
    \/ ClearCurrentClick

StartSpec == StartInit /\ [][StartNext]_vars

(***************************************************************************)
(* Sessions: the vocabulary of the claims                                  *)
(***************************************************************************)

\* Session k moves in this step: its call resumes from an await.
SessionSteps(k) ==
    /\ k \in 1..Len(sessions)
    /\ sessions[k].pc = "await"
    /\ \/ sessions'[k].pc # sessions[k].pc
       \/ sessions'[k].idx # sessions[k].idx

\* A later fetchLyrics call for another track has taken over the page.
Superseded(k) == sessions[k].uri # latestFetchUri

\* What a session can change on resuming: the lyrics, the rendered content,
\* the status indicator, the cache.
Visible == <<currentLyrics, content, lineEls, status, cache>>

(***************************************************************************)
(* C1                                                                      *)
(***************************************************************************)

\* C1: a session that resumes after a later fetchLyrics call for another
\* track has taken over changes neither currentLyrics, nor the rendered
\* content, nor the status indicator, nor the cache; whether its query was
\* answered or failed.
C1_SupersededSessionIsSilent ==
    [][\A k \in 1..Len(sessions) :
          (Superseded(k) /\ SessionSteps(k)) => Visible' = Visible]_vars

(***************************************************************************)
(* C2                                                                      *)
(***************************************************************************)

\* The sessions that would pass the staleness check on their next answer.
Live == {k \in 1..Len(sessions) :
            sessions[k].pc = "await" /\ ~Superseded(k)}

\* C2: at any time at most one session is live, that is, suspended in a
\* query and able to pass the staleness check when it is answered.
C2_AtMostOneLiveSession == Cardinality(Live) <= 1

(***************************************************************************)
(* C3                                                                      *)
(***************************************************************************)

\* The lyric sequences the provider's answers about a track can give.
LyricsOf(uri) ==
    UNION { ( IF r = Malformed THEN {}
              ELSE {parseLRC(r.syncedLyrics), prefetchParseLRC(r.syncedLyrics),
                    IF r.plainLyrics \in {NoText, <<>>} THEN NoLyrics
                    ELSE PlainToLines(r.plainLyrics)} ) \ {NoLyrics}
            : r \in ProviderResponses(uri) }

\* C3: the entry stored under a uri holds lyrics resolved for that track.
C3_EntryBelongsToItsTrack ==
    \A u \in DOMAIN cache : cache[u].lyrics \in LyricsOf(u)

(***************************************************************************)
(* C4                                                                      *)
(***************************************************************************)

Outcomes == {"synced", "plain", "notfound", "offline"}

\* The outcome the status indicator and the content show.
Shown ==
    IF status.message.text = "Found version(s)" /\ content.kind = "lyrics"
    THEN "synced"
    ELSE IF status.message.text = "No Synced Lyrics Found"
            /\ content.kind = "plain"
    THEN "plain"
    ELSE IF status.message.text = "No Lyrics Found"
            /\ content = MessageHtml("Lyrics not found.")
    THEN "notfound"
    ELSE IF status.message.text = "Provider Offline"
            /\ content = MessageHtml("Lyrics provider seems to be offline.")
    THEN "offline"
    ELSE "none"

\* C4: on each answer or failure of its query, a session that is not
\* superseded either goes on to its next permutation, of which there are
\* finitely many, or returns showing exactly one of Found(synced),
\* Found(plain), NotFound and Unreachable; and nothing is thrown. So, when
\* every query is eventually answered or fails, the call returns.
C4_SessionEndsInOneOutcome ==
    [][\A k \in 1..Len(sessions) :
          (SessionSteps(k) /\ ~Superseded(k)) =>
             /\ lastError' = NoError
             /\ \/ /\ sessions'[k].pc = "await"
                   /\ sessions'[k].idx = sessions[k].idx + 1
                   /\ sessions'[k].idx <= Len(sessions[k].searchPermutations)
                \/ /\ sessions'[k].pc = "done"
                   /\ sessions'[k].outcome \in Outcomes
                   /\ Shown' = sessions'[k].outcome]_vars

\* A session all of whose queries failed has returned Unreachable.
C4_Witness ==
    \E k \in 1..Len(sessions) :
        /\ sessions[k].pc = "done"
        /\ sessions[k].outcome = "offline"
        /\ sessions[k].uri = latestFetchUri
        /\ Len(sessions[k].searchPermutations) = 2

(***************************************************************************)
(* C5, C6                                                                  *)
(***************************************************************************)

\* Session k has just returned from its loop's end, and no later call has
\* taken over: its controller was never aborted, its track is the latest.
Concluded(k) ==
    /\ k \in 1..Len(sessions)
    /\ sessions[k].pc = "done"
    /\ sessions[k].outcome # "stale"
    /\ ~sessions[k].aborted
    /\ ~Superseded(k)

\* C5: a session that returns, not superseded, having been given neither a
\* synced text that parses nor a plain text, shows Unreachable exactly when
\* none of its queries was answered and NotFound exactly when one was; an
\* answer without lyrics and an answer that is no object count as answers.
C5_OfflineIffNothingAnswered ==
    \A k \in 1..Len(sessions) :
        (/\ Concluded(k)
         /\ sessions[k].seen.texts = <<>>
         /\ ~sessions[k].seen.plain) =>
            /\ Shown = "offline" <=> ~sessions[k].seen.reached
            /\ Shown = "notfound" <=> sessions[k].seen.reached

\* C6: a session that returns, not superseded, having been given a synced
\* text that parses, has loaded the parse of the first such text, and the
\* count shown is the number of distinct such texts it was given.
C6_FirstParsedIsLoaded ==
    \A k \in 1..Len(sessions) :
        (Concluded(k) /\ sessions[k].seen.texts # <<>>) =>
            /\ currentLyrics = parseLRC(sessions[k].seen.texts[1])
            /\ status.message = FoundVersions(Len(sessions[k].seen.texts))

(***************************************************************************)
(* C7                                                                      *)
(***************************************************************************)

\* The sequences made of a plain text: a line every two seconds.
PlainDerived ==
    { PlainToLines(r.plainLyrics) :
        r \in { x \in UNION {ProviderResponses(u) : u \in Uris} :
                  x # Malformed /\ x.plainLyrics \notin {NoText, <<>>} } }

\* C7: the lyrics updateLyricsUI computes the active line from are never a
\* sequence made of a plain text.
C7_PlainTextIsNeverTimed == currentLyrics \notin PlainDerived

(***************************************************************************)
(* C8                                                                      *)
(***************************************************************************)

\* The entry under uri u is the same before and after the step.
EntryKept(u) ==
    /\ u \in DOMAIN cache <=> u \in DOMAIN cache'
    /\ u \in DOMAIN cache => cache'[u] = cache[u]

\* C8: but for "Clear All Cache", a step changes the entry of at most one
\* uri: writing one entry neither removes nor reverts another, whatever was
\* written since the writer read the cache.
C8_NoLostUpdate ==
    [][ClearAllClick \/ \E u1 \in Uris : \A u2 \in Uris \ {u1} : EntryKept(u2)]_vars

\* A prefetch has stored its plain entry for B over a cache that had gained
\* an entry for A since the prefetch read it.
C8_Witness ==
    \E j \in 1..Len(walks) :
        /\ walks[j].pc = "delay"
        /\ walks[j].uri = "B"
        /\ DOMAIN walks[j].existing = {}
        /\ DOMAIN cache = {"A", "B"}
        /\ cache["B"].lyrics = PlainToLines(PlainB)

(***************************************************************************)
(* C9                                                                      *)
(***************************************************************************)

\* The index of the line the latest playback position falls on.
LatestIndex ==
    ActiveLineIndex(currentLyrics,
                    progress - getOffsetForTrack(World, playerItem))

\* C9: when the inactivity timer fires or Re-sync is clicked after a manual
\* scroll, with the page open and the position on a line of the lyrics, the
\* engine is synced again and the view is centred on that line.
C9_ResyncRecentres ==
    [][(/\ ScrollTimeout \/ ResyncClick
        /\ ~isSynced
        /\ isPageVisible
        /\ currentLyrics # NoLyrics
        /\ LatestIndex >= 0) =>
           /\ isSynced'
           /\ contentY' = CentredY(LatestIndex)]_vars

(***************************************************************************)
(* C10                                                                     *)
(***************************************************************************)

\* C10: right after the change to another track has been handled, the
\* lyrics loaded, if any, are the new track's, no line is active, the lyrics
\* have not started, the engine is synced and no inactivity timer is pending.
C10_TrackChangeResets ==
    [][(SongChange /\ playerItem' \in Uris /\ playerItem' # playerItem) =>
           /\ currentLyrics' = NoLyrics
              \/ currentLyrics' \in LyricsOf(playerItem')
           /\ currentActiveLineIndex' = -1
           /\ ~lyricsStarted'
           /\ isSynced'
           /\ pendingTimers' = {}]_vars

(***************************************************************************)
(* The active line                                                         *)
(***************************************************************************)

\* The greatest index whose line has come at the playback position the
\* player reports, moved by the offset of the track that plays; -1 if none.
ComputedIndex ==
    ActiveLineIndex(currentLyrics,
                    progress - getOffsetForTrack(World, playerItem))

\* C11: after updateLyricsUI(progressMs) has run with lyrics loaded and the
\* page visible, the active line is the last line whose time is not after
\* progressMs minus the track's offset, or none (-1) if there is no such
\* line. Stated for the onprogress event, whose handler is that call.
C11_ActiveLineIsLatestReached ==
    [][Progress /\ isPageVisible' /\ currentLyrics' # NoLyrics
           => currentActiveLineIndex' = ComputedIndex']_vars

\* A click on one of the three offset buttons.
OffsetClick == OffsetDecreaseClick \/ OffsetIncreaseClick \/ OffsetResetClick

\* C12: every change of the offset (increase, decrease, reset) re-evaluates
\* the active line at once: when setOffsetForTrack has returned, the active
\* line is the one computed from the playback position and the new offset.
C12_OffsetChangeReevaluates ==
    [][OffsetClick /\ isPageVisible' /\ currentLyrics' # NoLyrics
           => currentActiveLineIndex' = ComputedIndex']_vars

(***************************************************************************)
(* The offset store                                                        *)
(***************************************************************************)

\* The store, in memory (offsets) and as persisted (blob), holds v for u: a
\* key exactly when v is not 0, and then v itself.
OffsetHeld(offsets, blob, u, v) ==
    /\ blob \notin {NoBlob, CorruptBlob}
    /\ (u \in DOMAIN offsets) <=> (v # 0)
    /\ (u \in DOMAIN blob) <=> (v # 0)
    /\ v # 0 => offsets[u] = v /\ blob[u] = v

\* The offset of u is in this step what it was.
OffsetKept(u) ==
    /\ (u \in DOMAIN songOffsets') <=> (u \in DOMAIN songOffsets)
    /\ u \in DOMAIN songOffsets => songOffsets'[u] = songOffsets[u]

\* C13: after any sequence of setOffsetForTrack calls a uri has a key in the
\* offset store, in memory and in the persisted blob, exactly when the last
\* value set for it is not 0; getOffsetForTrack returns that value, or 0 when
\* the key is absent; a 0 is never stored. Step by step: a click on an offset
\* button leaves the value it sets for the playing track, held in that way,
\* and every other step and every other track keeps what was set last.
C13_ZeroOffsetIsNeverStored ==
    [][\A u \in Uris :
          LET old == getOffsetForTrack(World, u)
              now == getOffsetForTrack(World', u)
          IN  /\ OffsetDecreaseClick /\ u = playerItem
                    => /\ now = old - OffsetStep
                       /\ OffsetHeld(songOffsets', storedOffsets', u, now)
              /\ OffsetIncreaseClick /\ u = playerItem
                    => /\ now = old + OffsetStep
                       /\ OffsetHeld(songOffsets', storedOffsets', u, now)
              /\ OffsetResetClick /\ u = playerItem
                    => /\ now = 0
                       /\ OffsetHeld(songOffsets', storedOffsets', u, now)
              /\ ~(OffsetClick /\ u = playerItem) => OffsetKept(u)
              /\ u \in DOMAIN songOffsets' => songOffsets'[u] # 0]_vars

\* An offset was set for the playing track and is 0 again: both stores have
\* been written and hold no key.
C13_Witness ==
    /\ playerItem # NoUri
    /\ songOffsets = EmptyObject
    /\ storedOffsets = EmptyObject

(***************************************************************************)
(* The cache: removal and the hit                                          *)
(***************************************************************************)

\* C14: "Clear Current Cache" removes the entry of the track that plays:
\* after clearCurrentSongCache has run the cache holds no entry for that
\* track's uri, every other entry is what it was, and no error was raised.
C14_ClearCurrentRemovesEntry ==
    [][ClearCurrentClick /\ playerItem # NoUri
           => /\ playerItem \notin DOMAIN cache'
              /\ \A u \in DOMAIN cache \ {playerItem} :
                     u \in DOMAIN cache' /\ cache'[u] = cache[u]
              /\ lastError' = NoError]_vars

\* No call started a query in this step: whatever waits for an answer
\* waited for it before.
NoNewQuery ==
    \A k \in 1..Len(sessions') :
        sessions'[k].pc = "await"
            => /\ k <= Len(sessions)
               /\ sessions[k].pc = "await"
               /\ sessions'[k].idx = sessions[k].idx

\* C15: when fetchLyrics runs for a track whose uri has a cache entry it asks
\* the provider nothing, loads the cached sequence as the current lyrics and
\* reports a found status. Stated for the track change, whose listener calls
\* fetchLyrics for the new track.
C15_CacheHitAsksNothing ==
    [][SongChange /\ playerItem' \in DOMAIN getCache(World)
           => /\ NoNewQuery
              /\ currentLyrics' = getCache(World)[playerItem'].lyrics
              /\ status'.status = "online"]_vars

(***************************************************************************)
(* Damaged storage                                                         *)
(***************************************************************************)

\* What the start-up found unparsable it has recovered from: the user was
\* told, the values are the defaults, the blob is gone.
LoadRecovered ==
    /\ storedConfig # CorruptBlob
    /\ storedOffsets # CorruptBlob
    /\ "Error loading config" \in consoleErrors
           => /\ notifications # {}
              /\ storedConfig = NoBlob
              /\ autoCache = DEFAULT_CONFIG.autoCache
              /\ layout = DEFAULT_CONFIG.layout
    /\ "Error loading offsets" \in consoleErrors
           => /\ notifications # {}
              /\ storedOffsets = NoBlob
              /\ songOffsets = EmptyObject

\* C16: unparsable persisted data (the cache, the offsets or the config) is
\* never fatal: when it is read it is detected, the store is reset to empty
\* or to the defaults, its blob is removed, the user is notified and no
\* exception leaves the handler. For the cache, which is read on use: the
\* step that finds the store unparsable leaves it parsable, tells the user
\* and raises nothing.
C16_DamagedStoreIsRecovered ==
    [][/\ LoadRecovered
       /\ cache = CorruptBlob /\ cache' # CorruptBlob
              => /\ notifications' # {}
                 /\ lastError' = NoError]_vars

(***************************************************************************)
(* The queue prefetch: when it starts, what it writes                      *)
(***************************************************************************)

\* A call of prefetchQueueLyricsSilently was made in this step.
WalkStarted == Len(walks') = Len(walks) + 1

\* A fetchLyrics call returns in this step with timed lyrics found.
FoundResolution ==
    \E k \in 1..Len(sessions) :
        /\ sessions[k].pc = "await"
        /\ sessions'[k].pc = "done"
        /\ sessions'[k].outcome = "synced"

\* C17: a prefetch walk is started on every track change and after every
\* foreground resolution that ends in a found result (and it runs beside the
\* foreground call, as frames of its own).
C17_PrefetchStartsAfterFound ==
    [][/\ SongChange => WalkStarted
       /\ FoundResolution => WalkStarted]_vars

\* C18: the prefetch only fills in what is not cached yet: however its query
\* interleaves with the foreground's caching, silentFetchAndCache replaces no
\* entry that the cache holds for its uri at the moment it writes.
C18_PrefetchReplacesNothing ==
    [][PrefetchResolves
           => \A u \in DOMAIN cache :
                  u \in DOMAIN cache' /\ cache'[u] = cache[u]]_vars

(***************************************************************************)
(* The started flag                                                        *)
(***************************************************************************)

\* The handlers that end in a call of updateLyricsUI.
UpdateRuns ==
    \/ SongChange
    \/ TogglePage
    \/ Progress
    \/ ScrollTimeout
    \/ ResyncClick
    \/ OffsetClick
    \/ LayoutClick

\* C19: the lyric display stays hidden (lyricsStarted false) from the moment
\* a sequence is loaded until the first update whose computed active index
\* is greater than -1; at that update the flag becomes true and the display
\* is revealed. So after every update over loaded lyrics with the page open:
\* a line that has come means the flag is set and the viewport shown, the
\* flag is set by no update that computed -1, and the viewport is hidden
\* exactly while the flag is not set.
C19_HiddenUntilFirstLine ==
    [][UpdateRuns /\ isPageVisible' /\ currentLyrics' # NoLyrics
           => /\ ComputedIndex' > -1 => lyricsStarted'
              /\ lyricsStarted' => lyricsStarted \/ ComputedIndex' > -1
              /\ viewportHidden' <=> ~lyricsStarted']_vars

(***************************************************************************)
(* The search permutations                                                 *)
(***************************************************************************)

\* The variations of the title, the artist and the album, each once, in the
\* order they are first seen.
TitleVariations(m) == Dedupe(<<m.title, cleanText(m.title)>>)

ArtistVariations(m) ==
    Dedupe(<<m.artist_name, cleanText(m.artist_name)>>
           \o TrimmedPieces(SplitArtists(m.artist_name)))

AlbumVariations(m) == Dedupe(<<m.album_title, cleanText(m.album_title), <<>> >>)

\* C20: getSearchPermutations never returns two permutations with the same
\* (title, artist, album), its first permutation is the input triple as it
\* came, and the result is exactly the cartesian product of the title, artist
\* and album variations in first-seen order.
C20_PermutationsAreTheProduct ==
    permutations # <<>>
        => /\ \A i, j \in 1..Len(permutations) :
                  i # j => permutations[i] # permutations[j]
           /\ permutations[1] = [title  |-> metadata.title,
                                 artist |-> metadata.artist_name,
                                 album  |-> metadata.album_title]
           /\ permutations = Product(TitleVariations(metadata),
                                     ArtistVariations(metadata),
                                     AlbumVariations(metadata))

\* A title that cleanText shortens, a list of artists and an album with a
\* bracket: two titles, three artists or more, three albums.
C20_Witness ==
    /\ Len(permutations) >= 18
    /\ permutations[1].title # permutations[Len(permutations)].title
    /\ permutations[Len(permutations)].album = <<>>

(***************************************************************************)
(* cleanText applied twice                                                 *)
(***************************************************************************)

\* C21: cleanText is idempotent: cleaning a text that cleanText returned
\* gives that text back, also when the removal of a bracket joined the
\* characters around it into a qualifier, a feat. clause or a delimiter.
C21_CleanTextIsIdempotent ==
    cleanedText # NoText => cleanText(cleanedText) = cleanedText

(***************************************************************************)
(* parseLRC: order and what is dropped                                     *)
(***************************************************************************)

\* The line starts with a timestamp.
TimestampPrefixed(line) == TimestampAt(line, 1)

\* The lines that start with a timestamp, in order.
RECURSIVE PrefixedLines(_)
PrefixedLines(lines) ==
    IF lines = <<>> THEN <<>>
    ELSE (IF TimestampPrefixed(Head(lines)) THEN <<Head(lines)>> ELSE <<>>)
             \o PrefixedLines(Tail(lines))

\* result holds one entry for each of the given lines, ordered by time,
\* lines of equal time in the order given.
StableByTime(result, given) ==
    /\ Len(result) = Len(given)
    /\ \A i, j \in 1..Len(result) :
          i < j => result[i].time <= result[j].time
    /\ \E p \in [1..Len(given) -> 1..Len(given)] :
          /\ \A i, j \in 1..Len(given) : i # j => p[i] # p[j]
          /\ \A i \in 1..Len(given) :
                result[i].time = TimestampedLine(given[p[i]]).time
          /\ \A i, j \in 1..Len(given) :
                (i < j /\ result[i].time = result[j].time) => p[i] < p[j]

\* C22: parseLRC returns the timestamp-prefixed lines of its input in
\* non-decreasing order of time, lines of equal time in input order, the
\* lines without a timestamp prefix dropped; it returns null exactly when
\* no line of the input has a timestamp prefix.
C22_ParseReturnsPrefixedLinesByTime ==
    parseResult # <<>>
        => LET given == PrefixedLines(SplitLines(lrcText))
           IN  /\ parseResult = NoLyrics <=> given = <<>>
               /\ parseResult # NoLyrics => StableByTime(parseResult, given)

(***************************************************************************)
(* exportLRC read back                                                     *)
(***************************************************************************)

\* A time in ms rounded to hundredths of a second.
RoundedToHundredths(time) == ((time + 5) \div 10) * 10

\* The exported file, read by parseLRC, holds for every lyric line on show
\* a line at that line's time plus the track's offset, rounded.
ReadsBackShifted ==
    LET back   == parseLRC(lrcContent)
        offset == getOffsetForTrack(World, playerItem)
    IN  /\ back # NoLyrics
        /\ Len(back) = Len(currentLyrics)
        /\ \A i \in 1..Len(currentLyrics) :
              back[i].time = RoundedToHundredths(currentLyrics[i].time + offset)

\* C23: exportLRC emits, for every loaded lyric line, a [mm:ss.ff] line
\* whose timestamp reads back as the stored time plus the track's offset,
\* rounded to hundredths of a second, whatever the time and the offset.
C23_ExportReadsBackShifted ==
    lrcContent # NoText => ReadsBackShifted

(***************************************************************************)
(* The abort signal of the sessions that were superseded                   *)
(***************************************************************************)

\* The sessions that wait for the provider's answer.
InFlight == {k \in 1..Len(sessions) : sessions[k].pc = "await"}

\* C24: when fetchLyrics is called or a songchange arrives while an earlier
\* session is in flight, that session's abort signal is triggered before
\* the new session asks the provider: of two sessions in flight, one at
\* least has its signal aborted.
C24_EarlierSessionIsAborted ==
    \A k, j \in InFlight :
        k # j => sessions[k].aborted \/ sessions[j].aborted

(***************************************************************************)
(* The inactivity timer                                                    *)
(***************************************************************************)

\* C25: a manual scroll with lyrics loaded puts the engine in manual
\* override at once, cancels the inactivity timer armed before and arms a
\* new one, so that at most one inactivity timer is pending at any time and
\* the timer that returns the engine to synced is the one the last scroll
\* armed, not an earlier one.
C25_OneTimerArmedByLastScroll ==
    /\ [](pendingTimers \subseteq {scrollTimeout})
    /\ [][Wheel => /\ ~isSynced'
                   /\ scrollTimeout' # scrollTimeout
                   /\ pendingTimers' = {scrollTimeout'}]_vars

\* A second timer is armed and pending after a scroll, the engine is in
\* manual override.
C25_Witness ==
    /\ scrollTimeout = 2
    /\ pendingTimers = {scrollTimeout}
    /\ ~isSynced
    /\ resyncVisible
    /\ currentLyrics # NoLyrics

(***************************************************************************)
(* Manual override                                                         *)
(***************************************************************************)

\* With the page open and lyrics loaded, the active line is the latest one
\* reached and it is the one line marked active.
ActiveLineMarked ==
    (isPageVisible /\ currentLyrics # NoLyrics) =>
        /\ currentActiveLineIndex = ComputedIndex
        /\ \A i \in 1..Len(lineEls) :
              "active" \in lineEls[i] <=> i = currentActiveLineIndex + 1

\* C26: the view is centred automatically only while the engine is synced:
\* in manual override a progress event still updates the active line and its
\* marking but leaves the scroll position as it is, and no step other than
\* a manual scroll moves the view.
C26_OverrideKeepsScrollPosition ==
    /\ [][(Progress /\ ~isSynced) =>
              (contentY' = contentY /\ ActiveLineMarked')]_vars
    /\ [][(~isSynced /\ contentY' # contentY) => Wheel]_vars

(***************************************************************************)
(* The prefetch walks                                                      *)
(***************************************************************************)

\* The walks whose provider query is in flight.
PrefetchQueries == {j \in 1..Len(walks) : walks[j].pc = "query"}

\* C27: prefetch queries are issued one at a time, whatever the track
\* changes that start the walks: at most one prefetch query is in flight at
\* any moment (so that the next one can only follow a walk's delay).
C27_OnePrefetchQueryAtATime == Cardinality(PrefetchQueries) <= 1

\* A step of a walk.
WalkStep ==
    PrefetchBegins \/ PrefetchResolves \/ PrefetchRejects \/ PrefetchDelayEnds

\* The walk is at an item it has looked at: it asks the provider about it
\* only if the item has a uri, a title and an artist.
Attempting(walk) ==
    /\ walk.i \in 1..Len(walk.queue)
    /\ walk.pc \in {"query", "delay"}
    /\ walk.pc = "query" =>
          LET item == walk.queue[walk.i]
          IN  /\ item.uri # NoUri
              /\ item.metadata.title # <<>>
              /\ item.metadata.artist_name # <<>>

ForegroundStep == SongChange \/ TogglePage \/ QueryResolves \/ QueryRejects

\* C29: the prefetch walker is independent of the foreground session: a
\* step of a walk changes nothing but the lyrics cache and the walk itself
\* (the lyrics on show, the versions found, the active line, latestFetchUri
\* and the foreground's controller stay as they are), and a step of the
\* foreground, aborting or superseding a session included, leaves every
\* walk under way, its query included, as it is.
C29_WalkerIsIndependent ==
    /\ [][WalkStep =>
              \E f \in {Fresh(World)} :
                  World' = [f EXCEPT !.cache = cache', !.walks = walks']]_vars
    /\ [][ForegroundStep =>
              /\ Len(walks') >= Len(walks)
              /\ \A j \in 1..Len(walks) : walks'[j] = walks[j]]_vars

\* A prefetch query is in flight beside a foreground session that was
\* aborted and the session that superseded it.
C29_Witness ==
    \E j \in 1..Len(walks), k, n \in InFlight :
        /\ walks[j].pc = "query"
        /\ sessions[k].aborted
        /\ ~sessions[n].aborted
        /\ currentFetchController = n

(***************************************************************************)
(* The three stored values                                                 *)
(***************************************************************************)

\* C30: the three stored values are independent: loading the settings,
\* with or without a parse failure, leaves the stored and the loaded
\* offsets and the cache as they are; loading the offsets leaves the stored
\* and the loaded settings and the cache as they are; and the step that
\* finds the cache unparsable and clears it leaves the stored and the loaded
\* settings and offsets as they are.  A value that fails to parse is reset.
C30_StoredValuesAreIndependent ==
    /\ [][LoadConfig =>
              /\ UNCHANGED <<storedOffsets, songOffsets, cache>>
              /\ storedConfig = CorruptBlob =>
                    /\ storedConfig' = NoBlob
                    /\ autoCache' = DEFAULT_CONFIG.autoCache
                    /\ layout' = DEFAULT_CONFIG.layout]_vars
    /\ [][LoadOffsets =>
              /\ UNCHANGED <<storedConfig, autoCache, layout, cache>>
              /\ storedOffsets = CorruptBlob =>
                    /\ storedOffsets' = NoBlob
                    /\ songOffsets' = EmptyObject]_vars
    /\ [][(cache = CorruptBlob /\ cache' # cache) =>
              UNCHANGED <<storedConfig, autoCache, layout,
                          storedOffsets, songOffsets>>]_vars

\* The cache could not be parsed and was cleared while the settings and the
\* offsets loaded from the store are in place.
C30_Witness ==
    /\ setupPc = "done"
    /\ "Error reading cache, clearing it." \in consoleErrors
    /\ storedConfig \notin {NoBlob, CorruptBlob}
    /\ layout = storedConfig.layout
    /\ storedOffsets \notin {NoBlob, CorruptBlob}
    /\ songOffsets = storedOffsets

(***************************************************************************)
(* parseLRC: the time of a line                                            *)
(***************************************************************************)

\* The time written in a line that starts with [mm:ss.f]: minutes, seconds
\* and the fraction, three digits of it as milliseconds and two digits as
\* hundredths of a second.
WrittenTime(line) ==
    LET d(i) == DigitVal(line[i])
        mm   == 10 * d(2) + d(3)
        ss   == 10 * d(5) + d(6)
        frac == IF Len(line) >= 11 /\ line[11] = "]"
                THEN 100 * d(8) + 10 * d(9) + d(10)
                ELSE (10 * d(8) + d(9)) * 10
    IN  mm * 60000 + ss * 1000 + frac

\* How many elements of the sequence satisfy the test: the elements are
\* times, the test is equality with t.
RECURSIVE CountOf(_, _)
CountOf(times, t) ==
    IF times = <<>> THEN 0
    ELSE (IF Head(times) = t THEN 1 ELSE 0) + CountOf(Tail(times), t)

\* C31: for every line of the input that starts with [mm:ss.f], parseLRC
\* returns an entry whose time is mm*60000 + ss*1000 + the fraction, a
\* fraction of three digits taken as milliseconds and one of two digits as
\* hundredths: the result holds each such time at least as often as the
\* prefixed lines of the input do.
C31_TimeOfAPrefixedLine ==
    parseResult # <<>>
        => LET given   == PrefixedLines(SplitLines(lrcText))
               written == [i \in 1..Len(given) |-> WrittenTime(given[i])]
               times   == IF parseResult = NoLyrics THEN <<>>
                          ELSE [i \in 1..Len(parseResult) |->
                                    parseResult[i].time]
           IN  \A i \in 1..Len(given) :
                   CountOf(times, written[i]) >= CountOf(written, written[i])

\* A text with a line at [00:00.50] and one at [12:34.056] has been parsed.
C31_Witness ==
    /\ parseResult # <<>>
    /\ parseResult # NoLyrics
    /\ \E i, j \in 1..Len(parseResult) :
          /\ parseResult[i].time = 500
          /\ parseResult[i].text = <<"c">>
          /\ parseResult[j].time = 754056

(***************************************************************************)
(* A superseded session and its remaining permutations                     *)
(***************************************************************************)

\* The abort signal of session k has fired, or latestFetchUri has moved on.
AbortedOrSuperseded(k) == sessions[k].aborted \/ Superseded(k)

\* C32: a session that resumes after its abort signal has fired or after
\* latestFetchUri has changed asks the provider nothing more: it is not
\* waiting for the answer to another permutation's query afterwards.
C32_SupersededSessionAsksNothing ==
    [][\A k \in 1..Len(sessions) :
          (AbortedOrSuperseded(k) /\ SessionSteps(k))
              => sessions'[k].pc # "await"]_vars

(***************************************************************************)
(* The loaded lyrics and the track that plays                              *)
(***************************************************************************)

\* C33: whenever lyrics are loaded, a track is playing, latestFetchUri is
\* its uri and the loaded lyrics were resolved for it.
C33_LoadedLyricsAreOfThePlayingTrack ==
    currentLyrics # NoLyrics
        => /\ playerItem # NoUri
           /\ latestFetchUri = playerItem
           /\ currentLyrics \in LyricsOf(playerItem)

(***************************************************************************)
(* The active line, the started flag and the display                       *)
(***************************************************************************)

\* C34: with the page open and lyrics rendered, an active line index above
\* -1 means that lyricsStarted is set, the viewport is revealed and the
\* line at that index is the one line marked active; a re-render after a
\* change of the layout included.
C34_ActiveLineMeansStartedAndShown ==
    (/\ isPageVisible
     /\ currentLyrics # NoLyrics
     /\ content.kind = "lyrics"
     /\ currentActiveLineIndex > -1)
        => /\ lyricsStarted
           /\ ~viewportHidden
           /\ \A i \in 1..Len(lineEls) :
                 "active" \in lineEls[i] <=> i = currentActiveLineIndex + 1

(***************************************************************************)
(* fetchLyrics for the track whose lyrics are loaded                       *)
(***************************************************************************)

\* fetchLyrics is called for the track the page was rendered for while
\* lyrics are loaded: by the songchange listener when the same track starts
\* again, or by togglePage when the page is opened.
Reinvoked ==
    /\ SongChange \/ (TogglePage /\ isPageVisible')
    /\ playerItem' # NoUri
    /\ pageUri = playerItem'
    /\ currentLyrics # NoLyrics

EntryWritten ==
    \E u \in DOMAIN cache' : u \notin DOMAIN cache \/ cache'[u] # cache[u]

\* C36: while autoCache is off, a step that creates or overwrites a cache
\* entry is a click on "Cache Current Song" or a pass of "Cache All
\* Lyrics"; no answer to a foreground query and no step of a prefetch walk
\* writes an entry.
C36_OnlyExplicitActionsWriteTheCache ==
    [][(~autoCache /\ EntryWritten)
          => CacheNowClick \/ CacheAllRows \/ CacheAllResumes]_vars

(***************************************************************************)
(* Cache entries are not empty                                             *)
(***************************************************************************)

\* C37: every entry of the cache, whoever wrote it (the foreground
\* resolution, "Cache Current Song", the prefetch walk), holds a lyric
\* sequence of at least one line, and the lyrics loaded, from a cache hit
\* included, are never an empty sequence.
C37_CacheEntriesAreNotEmpty ==
    /\ \A u \in DOMAIN cache :
          /\ cache[u].lyrics # NoLyrics
          /\ Len(cache[u].lyrics) > 0
    /\ currentLyrics # <<>>

\* The lyrics of B on show came from the entry a walk or a click wrote.
C37_Witness ==
    /\ playerItem = "B"
    /\ "B" \in DOMAIN cache
    /\ status.message.text = "Lyrics Found (Cached)"
    /\ currentLyrics = cache["B"].lyrics
    /\ Len(currentLyrics) > 0

(***************************************************************************)
(* The two parseLRC functions                                              *)
(***************************************************************************)

\* C38: for every text, the parseLRC of the foreground and the parseLRC of
\* the prefetch module return the same sequence of (time, text) entries, or
\* both return null.
C38_BothParsersAgree ==
    (parseResult # <<>> /\ prefetchParseResult # <<>>)
        => parseResult = prefetchParseResult

\* Both have parsed a text of three lines that were not given in order of
\* time.
C38_Witness ==
    /\ parseResult # <<>>
    /\ parseResult # NoLyrics
    /\ prefetchParseResult = parseResult
    /\ Len(parseResult) = 3
    /\ parseResult # MatchedLines(SplitLines(lrcText))

====
